---- MODULE Spec2Model ----
(***************************************************************************)
(* Cross-chain atomic-swap contracts of 10inch-contracts.                  *)
(*                                                                         *)
(* The repository holds independent contracts for three host ledgers       *)
(* (CosmWasm, NEAR, Soroban).  Each contract is its own deployment with    *)
(* its own storage; `deployed` names the contract a behaviour runs, and    *)
(* every handler is one atomic action (a failed call reverts, so it        *)
(* changes nothing but `last`, the record of the most recent call and of   *)
(* the transfers it emitted).  Token and bank transfers are calls into the *)
(* host ledger: a handler's transfers are recorded as emitted effects.     *)
(***************************************************************************)
EXTENDS Integers, Sequences, FiniteSets, TLC

VARIABLES
    deployed,        \* the contract this ledger instance runs
    now,             \* block time in seconds (env.block.time / ledger timestamp)
    last,            \* the most recent call: operation, arguments, result, emitted transfers
    \* cosmos-integration/contracts/atomic_swap
    CONFIG,          \* Item<Config>
    SWAPS,           \* Map<&str, Swap>, keyed by the n of "swap_n"
    SWAP_COUNTER,    \* Item<u64>
    swap_msgs,       \* per swap, the BankMsg::Send messages emitted so far
    \* near-integration/src/fusion_htlc.rs (FusionHTLCContract)
    htlcs,           \* UnorderedMap<String, HTLC>, keyed by the n of "htlc_n"
    secret_to_htlc,  \* LookupMap<String, String>: hashlock -> HTLC id
    next_htlc_id,    \* u64
    htlc_transfers,  \* per HTLC, the Promise transfers emitted so far
    safety_deposits, \* UnorderedMap<String, SafetyDeposit>, keyed by the n of "deposit_n"
    next_deposit_id, \* u64
    \* near-integration/src/fusion_htlc_simple.rs (FusionHTLC)
    simple_htlcs,    \* UnorderedMap<String, HTLCInfo>
    next_id,         \* u64
    simple_transfers, \* per HTLC, the Promise transfers emitted so far
    \* stellar-integration/contracts/fusion-htlc
    HTLC,            \* DataKey::HTLC(u64) -> FusionHTLC
    HTLCCounter,     \* DataKey::HTLCCounter
    ResolverConfigs, \* DataKey::ResolverConfig(Address) -> ResolverConfig
    GlobalResolvers, \* DataKey::GlobalResolvers: Vec<Address>
    Paused,          \* DataKey::Paused of the fusion-htlc
    token_transfers, \* per HTLC, the token transfers out of the contract so far
    \* near-integration/src/fusion_plus.rs (FusionPlusContract)
    plus_htlcs,      \* htlcs: UnorderedMap<String, FusionHTLC>
    partial_fills,   \* LookupMap<String, Vector<PartialFill>>
    plus_secret_to_htlc, \* secret_to_htlc: LookupMap<String, String>
    user_htlcs,      \* LookupMap<AccountId, Vector<String>>
    active_htlcs,    \* Vector<String>
    plus_next_htlc_id, \* next_htlc_id: u64
    next_fill_id,    \* u64
    plus_stats,      \* total_volume and total_htlcs_created
    plus_transfers,  \* per HTLC, the Promise transfers of escrowed funds so far
    plus_safety_deposits, \* safety_deposits: UnorderedMap<String, SafetyDeposit>
    plus_next_deposit_id, \* next_deposit_id: u64
    \* cosmos-integration/contracts/cross_chain_bridge
    BRIDGE_ORDERS,   \* Map<&str, BridgeOrder>, keyed by the n of "bridge_order_n"
    BRIDGE_ORDER_COUNTER, \* ORDER_COUNTER: Item<u64>
    IBC_TRANSFERS,   \* Map<u64, IbcTransfer>
    CHAIN_CONFIGS,   \* Map<u32, ChainConfig>
    BRIDGE_CONFIG,   \* CONFIG: Item<Config> of the bridge
    bridge_msgs,     \* per order, the IbcMsg::Transfer and BankMsg::Send emitted so far
    ibc_finalized,   \* history: the sequences whose stored transfer an ack or timeout has finalized
    ibc_acked_ok,    \* history: the orders whose IBC transfer got a success acknowledgement
    bridge_returned, \* the coins of timed-out and refused transfers returned to the bridge
    \* cosmos-integration/contracts/resolver
    ORDERS,          \* Map<u64, ResolverOrder>
    RESOLVER_ORDER_COUNTER, \* ORDER_COUNTER: Item<u64>
    SECRET_HASH_TO_ORDER_ID, \* Map<&str, u64>
    resolver_msgs,   \* per order, the BankMsg::Send messages emitted so far
    RESOLVER_CONFIG, \* CONFIG: Item<Config> of the resolver
    \* stellar-integration/relayer-contract
    Order,           \* DataKey::Order(u64) -> RelayerOrder
    OrderCounter,    \* DataKey::OrderCounter
    relayer_balance, \* the contract's balance of the orders' token
    deposit_transfers, \* per order, the token transfers out of the contract so far
    relayer_Admin,   \* DataKey::Admin
    relayer_RelayerAuth, \* the addresses with DataKey::RelayerAuth(Address) = true
    relayer_inits,   \* history: the calls of initialize after the deployment's
    \* stellar-integration/src/fusion_relayer.rs (FusionRelayer)
    fr_Order,        \* DataKey::Order(u64) -> RelayerOrder
    fr_OrderCounter, \* DataKey::OrderCounter
    fr_RelayerAuth,  \* the addresses with DataKey::RelayerAuth(Address) = true
    fr_balance,      \* the contract's balance of the orders' token
    fr_transfers,    \* per order, the token transfers out of the contract so far
    stellar_Admin,   \* DataKey::Admin, the one key of fusion_relayer.rs and fusion_htlc.rs
    \* near-integration/src/fusion_htlc_partial.rs (FusionHTLCPartialContract)
    pf_htlcs,          \* UnorderedMap<String, HTLCPartial>, keyed by the n of "htlc_n"
    pf_partial_fills,  \* UnorderedMap<String, PartialFill>, keyed by the n of "fill_n"
    pf_secret_to_htlc, \* LookupMap<String, String>: hashlock -> htlc id
    pf_filler_to_htlc, \* LookupMap<AccountId, Vector<String>>: the length of each filler's Vector
    pf_vector_f,       \* the elements stored under the Vector prefix b"f", by index
    pf_next_htlc_id,   \* u64
    pf_next_fill_id,   \* u64
    pf_transfers,      \* per HTLC, the NEAR transfers promised so far
    \* execute_withdraw_fees of atomic_swap and of cross_chain_bridge
    swap_fee_msgs,     \* the BankMsg::Send messages of atomic_swap's execute_withdraw_fees
    bridge_fee_msgs,   \* the BankMsg::Send messages of cross_chain_bridge's execute_withdraw_fees
    \* Stellar MultiTokenHTLC (contracts/multi-token-htlc)
    mt_HTLC,           \* DataKey::HTLC(id) -> HTLCState
    mt_HTLCCounter,    \* DataKey::HTLCCounter
    mt_TokenConfig,    \* DataKey::TokenConfig(token) of the one token: None or Some(config)
    mt_Paused,         \* DataKey::Paused
    mt_balance,        \* the contract's balance of the token
    mt_transfers,      \* per HTLC, the token transfers made out of the contract
    \* Stellar FusionHTLC (src/stellar-integration/src/fusion_htlc.rs)
    sf_HTLC,           \* DataKey::HTLC(id) -> HTLCState
    sf_HTLCCounter,    \* DataKey::HTLCCounter
    \* Stellar PartialFillHTLC (contracts/partial-fill-htlc)
    ph_HTLC,             \* DataKey::HTLC(id) -> PartialHTLC
    ph_HTLCCounter,      \* DataKey::HTLCCounter, read with unwrap_or(0)
    ph_Admin,            \* DataKey::Admin: None until initialize stores it
    ph_MinDeposit,       \* DataKey::MinDeposit: None until initialize stores it
    ph_DepositMultiplier, \* DataKey::DepositMultiplier: None until initialize stores it
    ph_ResolverDeposits, \* DataKey::ResolverDeposits(resolver) -> i128, where stored
    ph_balance,          \* per token, the contract's balance
    ph_paid,             \* per HTLC, the token transfers made out of the contract
    ph_collateral_in,    \* per resolver and token, the amount transferred in by deposit_collateral
    ph_collateral_out    \* per resolver and token, the amount transferred out by withdraw_collateral

swapVars == <<CONFIG, SWAPS, SWAP_COUNTER, swap_msgs>>
nearVars == <<htlcs, secret_to_htlc, next_htlc_id, htlc_transfers, safety_deposits,
              next_deposit_id>>
simpleVars == <<simple_htlcs, next_id, simple_transfers>>
fusionVars == <<HTLC, HTLCCounter, ResolverConfigs, GlobalResolvers, Paused,
                token_transfers>>
plusVars == <<plus_htlcs, partial_fills, plus_secret_to_htlc, user_htlcs, active_htlcs,
              plus_next_htlc_id, next_fill_id, plus_stats, plus_transfers,
              plus_safety_deposits, plus_next_deposit_id>>
bridgeVars == <<BRIDGE_ORDERS, BRIDGE_ORDER_COUNTER, IBC_TRANSFERS, CHAIN_CONFIGS,
                BRIDGE_CONFIG,
                bridge_msgs, ibc_finalized, ibc_acked_ok, bridge_returned>>
resolverVars == <<ORDERS, RESOLVER_ORDER_COUNTER, SECRET_HASH_TO_ORDER_ID, resolver_msgs,
                  RESOLVER_CONFIG>>
relayerVars == <<Order, OrderCounter, relayer_balance, deposit_transfers,
                 relayer_Admin, relayer_RelayerAuth, relayer_inits>>
\* The keys that only fusion_relayer.rs writes, then with the shared Admin.
frOwnVars == <<fr_Order, fr_OrderCounter, fr_RelayerAuth, fr_balance, fr_transfers>>
frVars == <<fr_Order, fr_OrderCounter, fr_RelayerAuth, fr_balance, fr_transfers,
            stellar_Admin>>
pfVars == <<pf_htlcs, pf_partial_fills, pf_secret_to_htlc, pf_filler_to_htlc,
            pf_vector_f, pf_next_htlc_id, pf_next_fill_id, pf_transfers>>
feeVars == <<swap_fee_msgs, bridge_fee_msgs>>

mtVars == <<mt_HTLC, mt_HTLCCounter, mt_TokenConfig, mt_Paused, mt_balance, mt_transfers>>
sfVars == <<sf_HTLC, sf_HTLCCounter>>

phVars == <<ph_HTLC, ph_HTLCCounter, ph_Admin, ph_MinDeposit, ph_DepositMultiplier,
            ph_ResolverDeposits, ph_balance, ph_paid,
            ph_collateral_in, ph_collateral_out>>

vars == <<deployed, now, last, swapVars, nearVars, simpleVars, fusionVars, plusVars,
          bridgeVars, resolverVars, relayerVars, frVars, pfVars, feeVars, mtVars, sfVars, phVars>>

(***************************************************************************)
(* Option<T>, calls and their results                                      *)
(***************************************************************************)
None == <<>>
Some(x) == <<x>>

\* deps.api.addr_validate: the text is an address of the chain.
addr_validate(a) == a # ""

NoCall == [op |-> "none", id |-> 0, res |-> "Ok", msgs |-> <<>>]

Call(op, id, res, msgs) == [op |-> op, id |-> id, res |-> res, msgs |-> msgs]

Send(to, amount) == [to |-> to, amount |-> amount]

\* token::Client::transfer of a Soroban token out of a contract that holds
\* balance: the token panics, and with it the whole call, when the amount is
\* negative or exceeds the balance.
token_accepts(balance, amount) == amount >= 0 /\ balance >= amount

\* The sum of the amounts of a sequence of messages.
RECURSIVE SumAmounts(_)
SumAmounts(msgs) ==
    IF msgs = <<>> THEN 0 ELSE Head(msgs).amount + SumAmounts(Tail(msgs))

\* The sum over the orders ids of orders of amount less the messages paid for it.
RECURSIVE NetHeld(_, _, _)
NetHeld(ids, orders, msgs) ==
    IF ids = {} THEN 0
    ELSE LET id == CHOOSE i \in ids : TRUE
         IN orders[id].amount - SumAmounts(msgs[id])
            + NetHeld(ids \ {id}, orders, msgs)

\* The messages a Cosmos handler returns are executed by the chain in the same
\* transaction: a BankMsg::Send or an IbcMsg::Transfer of more coins than the
\* contract holds fails there, and the transaction is reverted with the
\* handler's writes.
BankInsufficientFunds == "bank: insufficient funds"

\* A later block: the ledger's time never decreases.
Tick(times) ==
    /\ \E t \in times : t > now /\ now' = t
    /\ UNCHANGED last

(***************************************************************************)
(* Cosmos atomic_swap                                                      *)
(***************************************************************************)
\* Bound on the number of swaps created in one behaviour.
MaxSwaps == 1

SwapAddrs == {"alice", "bob"}
\* The recipient named by CreateSwap: an address, or a text that is none.
SwapRecipients == {"bob", ""}
SwapOwners == {"owner", "mallory", "alice"}
SwapBlockTimes == {0, 3599, 3600, 3601, 7200}
SwapTimelockInputs == {0, 3599, 3600}
SwapFundsInputs == {<<>>, <<0>>, <<10000>>}
SwapSecrets == {"s1", "s2"}
\* 64-character strings offered as secret_hash: the lower-case digest of s1, the
\* same digest in upper case, and a string that is not hexadecimal.
SwapHashInputs == {"d1", "D1", "zz"}

\* format!("{:x}", Sha256(secret.as_bytes())): lower-case hexadecimal.
Sha256Hex(secret) ==
    CASE secret = "s1" -> "d1"
      [] secret = "s2" -> "d2"
      [] OTHER -> "d0"

\* secret_hash.len() == 64 && all chars are ASCII hex digits (either case).
IsHex64(h) == h \in {"d0", "d1", "d2", "D1"}

SwapInstantiate ==
    [owner |-> "owner", protocol_fee_bps |-> 50,
     min_timelock_duration |-> 3600, max_timelock_duration |-> 7200]

\* The bank balance of atomic_swap, as query_all_balances returns it in the one
\* denom: what the swaps paid in less what the contract's messages paid out;
\* no other account sends coins to the contract.
swap_balance == NetHeld(DOMAIN SWAPS, SWAPS, swap_msgs) - SumAmounts(swap_fee_msgs)

create_swap_result(recipient, secret_hash, timelock_seconds, funds) ==
    IF timelock_seconds < CONFIG.min_timelock_duration
       \/ timelock_seconds > CONFIG.max_timelock_duration THEN "InvalidTimelock"
    ELSE IF ~IsHex64(secret_hash) THEN "InvalidSecretHash"
    ELSE IF funds = <<>> THEN "InvalidAmount"
    ELSE IF funds[1] = 0 THEN "InvalidAmount"
    ELSE IF ~addr_validate(recipient) THEN "Std"
    ELSE "Ok"

execute_create_swap(sender, recipient, secret_hash, timelock_seconds, funds) ==
    LET res == create_swap_result(recipient, secret_hash, timelock_seconds, funds)
        swap_id == SWAP_COUNTER
        swap == [id |-> swap_id, initiator |-> sender, recipient |-> recipient,
                 amount |-> funds[1], secret_hash |-> secret_hash,
                 timelock |-> now + timelock_seconds, status |-> "Active",
                 created_at |-> now, completed_at |-> None, secret |-> None]
    IN /\ SWAP_COUNTER < MaxSwaps
       /\ IF res = "Ok"
          THEN /\ SWAP_COUNTER' = SWAP_COUNTER + 1
               /\ SWAPS' = [i \in DOMAIN SWAPS \cup {swap_id} |->
                               IF i = swap_id THEN swap ELSE SWAPS[i]]
               /\ swap_msgs' = [i \in DOMAIN SWAPS \cup {swap_id} |->
                               IF i = swap_id THEN <<>> ELSE swap_msgs[i]]
          ELSE UNCHANGED <<SWAPS, SWAP_COUNTER, swap_msgs>>
       /\ last' = Call("execute_create_swap", swap_id, res, <<>>)
       /\ UNCHANGED <<CONFIG, now>>

\* The protocol fee rounded up instead of truncated.
swap_fee_amount_ceil(amount) == (amount * CONFIG.protocol_fee_bps + 9999) \div 10000

\* fee_amount of execute_complete_swap: Uint128 arithmetic, the division
\* truncates.
swap_fee_amount(amount) == (amount * CONFIG.protocol_fee_bps) \div 10000

\* The checks of execute_complete_swap with the expiry second still open.
complete_swap_result_strict(swap_id, secret) ==
    IF swap_id \notin DOMAIN SWAPS THEN "NotFound"
    ELSE IF SWAPS[swap_id].status = "Completed" THEN "SwapAlreadyCompleted"
    ELSE IF SWAPS[swap_id].status = "Refunded" THEN "SwapAlreadyRefunded"
    ELSE IF now > SWAPS[swap_id].timelock THEN "TimelockExpired"
    ELSE IF Sha256Hex(secret) # SWAPS[swap_id].secret_hash THEN "InvalidSecret"
    ELSE IF swap_fee_amount(SWAPS[swap_id].amount) > SWAPS[swap_id].amount
         THEN "attempt to subtract with overflow"
    ELSE "Ok"

\* The checks of execute_complete_swap, in the order of the code; the Uint128
\* subtraction amount - fee_amount panics when the fee exceeds the amount.
complete_swap_result(swap_id, secret) ==
    IF swap_id \notin DOMAIN SWAPS THEN "NotFound"
    ELSE IF SWAPS[swap_id].status = "Completed" THEN "SwapAlreadyCompleted"
    ELSE IF SWAPS[swap_id].status = "Refunded" THEN "SwapAlreadyRefunded"
    ELSE IF now >= SWAPS[swap_id].timelock THEN "TimelockExpired"
    ELSE IF Sha256Hex(secret) # SWAPS[swap_id].secret_hash THEN "InvalidSecret"
    ELSE IF swap_fee_amount(SWAPS[swap_id].amount) > SWAPS[swap_id].amount
         THEN "attempt to subtract with overflow"
    ELSE "Ok"

execute_complete_swap(caller, swap_id, secret) ==
    LET checked == complete_swap_result(swap_id, secret)
        swap == SWAPS[swap_id]
        transfer_amount == swap.amount - swap_fee_amount(swap.amount)
        res == IF checked = "Ok" /\ transfer_amount > swap_balance
               THEN BankInsufficientFunds ELSE checked
        msgs == IF res = "Ok" THEN <<Send(swap.recipient, transfer_amount)>> ELSE <<>>
    IN /\ IF res = "Ok"
          THEN /\ SWAPS' = [SWAPS EXCEPT ![swap_id] =
                               [@ EXCEPT !.status = "Completed",
                                         !.completed_at = Some(now),
                                         !.secret = Some(secret)]]
               /\ swap_msgs' = [swap_msgs EXCEPT ![swap_id] = @ \o msgs]
          ELSE UNCHANGED <<SWAPS, swap_msgs>>
       /\ last' = Call("execute_complete_swap", swap_id, res, msgs)
       /\ UNCHANGED <<CONFIG, SWAP_COUNTER, now>>

\* The checks of execute_refund_swap without the one on a Refunded swap.
refund_swap_result_unguarded(sender, swap_id) ==
    IF swap_id \notin DOMAIN SWAPS THEN "NotFound"
    ELSE IF sender # SWAPS[swap_id].initiator THEN "Unauthorized"
    ELSE IF SWAPS[swap_id].status = "Completed" THEN "SwapAlreadyCompleted"
    ELSE IF now < SWAPS[swap_id].timelock THEN "TimelockNotExpired"
    ELSE "Ok"

\* The checks of execute_refund_swap, in the order of the code.
refund_swap_result(sender, swap_id) ==
    IF swap_id \notin DOMAIN SWAPS THEN "NotFound"
    ELSE IF sender # SWAPS[swap_id].initiator THEN "Unauthorized"
    ELSE IF SWAPS[swap_id].status = "Completed" THEN "SwapAlreadyCompleted"
    ELSE IF SWAPS[swap_id].status = "Refunded" THEN "SwapAlreadyRefunded"
    ELSE IF now < SWAPS[swap_id].timelock THEN "TimelockNotExpired"
    ELSE "Ok"

\* execute_refund_swap that deletes the swap's record once it is refunded.
execute_refund_swap_removing(sender, swap_id) ==
    LET checked == refund_swap_result(sender, swap_id)
        swap == SWAPS[swap_id]
        res == IF checked = "Ok" /\ swap.amount > swap_balance
               THEN BankInsufficientFunds ELSE checked
        msgs == IF res = "Ok" THEN <<Send(swap.initiator, swap.amount)>> ELSE <<>>
    IN /\ IF res = "Ok"
          THEN /\ SWAPS' = [i \in DOMAIN SWAPS \ {swap_id} |-> SWAPS[i]]
               /\ swap_msgs' = [swap_msgs EXCEPT ![swap_id] = @ \o msgs]
          ELSE UNCHANGED <<SWAPS, swap_msgs>>
       /\ last' = Call("execute_refund_swap", swap_id, res, msgs)
       /\ UNCHANGED <<CONFIG, SWAP_COUNTER, now>>

execute_refund_swap(sender, swap_id) ==
    LET checked == refund_swap_result(sender, swap_id)
        swap == SWAPS[swap_id]
        res == IF checked = "Ok" /\ swap.amount > swap_balance
               THEN BankInsufficientFunds ELSE checked
        msgs == IF res = "Ok" THEN <<Send(swap.initiator, swap.amount)>> ELSE <<>>
    IN /\ IF res = "Ok"
          THEN /\ SWAPS' = [SWAPS EXCEPT ![swap_id] =
                               [@ EXCEPT !.status = "Refunded",
                                         !.completed_at = Some(now)]]
               /\ swap_msgs' = [swap_msgs EXCEPT ![swap_id] = @ \o msgs]
          ELSE UNCHANGED <<SWAPS, swap_msgs>>
       /\ last' = Call("execute_refund_swap", swap_id, res, msgs)
       /\ UNCHANGED <<CONFIG, SWAP_COUNTER, now>>

\* The arguments of UpdateConfig offered to the contract: a fee of 100%, a fee
\* of 200%, and a new owner with timelock bounds 0 and 10.
SwapConfigUpdates ==
    {[owner |-> None, protocol_fee_bps |-> Some(10000),
      min_timelock_duration |-> None, max_timelock_duration |-> None],
     [owner |-> None, protocol_fee_bps |-> Some(20000),
      min_timelock_duration |-> None, max_timelock_duration |-> None],
     [owner |-> Some("mallory"), protocol_fee_bps |-> None,
      min_timelock_duration |-> Some(0), max_timelock_duration |-> Some(10)]}

\* The Config that execute_update_config saves: each Some field replaces.
updated_config(config, msg) ==
    [owner |-> IF msg.owner = None THEN config.owner ELSE msg.owner[1],
     protocol_fee_bps |-> IF msg.protocol_fee_bps = None THEN config.protocol_fee_bps
                          ELSE msg.protocol_fee_bps[1],
     min_timelock_duration |-> IF msg.min_timelock_duration = None
                               THEN config.min_timelock_duration
                               ELSE msg.min_timelock_duration[1],
     max_timelock_duration |-> IF msg.max_timelock_duration = None
                               THEN config.max_timelock_duration
                               ELSE msg.max_timelock_duration[1]]

\* atomic_swap's execute_update_config: only the owner may update.
swap_update_config(sender, msg) ==
    LET res == IF sender # CONFIG.owner THEN "Unauthorized"
               ELSE IF msg.owner # None /\ ~addr_validate(msg.owner[1]) THEN "Std"
               ELSE "Ok"
    IN /\ CONFIG' = IF res = "Ok" THEN updated_config(CONFIG, msg) ELSE CONFIG
       /\ last' = Call("swap_update_config", 0, res, <<>>)
       /\ UNCHANGED <<SWAPS, SWAP_COUNTER, swap_msgs, now>>

\* The contract's storage after instantiate.
SwapNew ==
    /\ CONFIG = SwapInstantiate
    /\ SWAPS = <<>>
    /\ SWAP_COUNTER = 0
    /\ swap_msgs = <<>>

(***************************************************************************)
(* Cosmos cross_chain_bridge (contract.rs, ibc.rs).  A handler returns its *)
(* messages to the chain; the IbcMsg::Transfer and BankMsg::Send it        *)
(* returns are the order's emitted transfers.                              *)
(***************************************************************************)
\* Bound on the number of bridge orders created in one behaviour.
MaxBridgeOrders == 2
\* Bound on the transfers one order emits (a completion can be repeated).
MaxBridgeMsgs == 2

BridgeAddrs == {"alice", "bob"}
BridgeBlockTimes == {0, 3599, 3600}
\* Block times at which execute_create_bridge_order is submitted.
BridgeCreateTimes == {0}
BridgeTimelockInputs == {0, 3599, 3600}
BridgeFundsInputs == {<<>>, <<0>>, <<10000>>}
BridgeChainInputs == {2, 56, 137}
BridgeSecrets == {"s1", "s2"}
BridgeHashInputs == {"d1", "zz"}
\* Packet sequences the IBC module may report back to the contract.
BridgeSequences == 2..(MaxBridgeOrders + 1)

\* InstantiateMsg: the Config and the initial chains.
BridgeInstantiate ==
    [owner |-> "owner", protocol_fee_bps |-> 50, min_timelock_duration |-> 3600,
     max_timelock_duration |-> 7200, ibc_timeout_seconds |-> 600]

BridgeInitialChains ==
    [c \in {2, 56} |->
        [chain_id |-> c, ibc_channel |-> "channel-0",
         is_active |-> (c = 2), fee_multiplier |-> 10]]

\* Senders of the owner-only messages.
BridgeOwners == {"owner", "mallory", "alice"}
\* The ChainConfig values UpdateChainConfig is sent with.
BridgeChainUpdates ==
    {[chain_id |-> 56, ibc_channel |-> "channel-7", is_active |-> TRUE,
      fee_multiplier |-> 20000]}
\* The chains RemoveChainConfig is sent for.
BridgeChainRemovals == {2}
\* The UpdateConfig messages of the bridge.
BridgeConfigUpdates ==
    {[owner |-> Some("mallory"), protocol_fee_bps |-> None,
      min_timelock_duration |-> Some(0), max_timelock_duration |-> Some(10),
      ibc_timeout_seconds |-> None]}

\* The bank balance of the bridge, as query_all_balances returns it in the one
\* denom: what the orders paid in, less what the contract's messages paid out,
\* plus the coins of the transfers that timed out or were refused, which the
\* chain's transfer module returns to the sender of the transfer.
bridge_balance ==
    NetHeld(DOMAIN BRIDGE_ORDERS, BRIDGE_ORDERS, bridge_msgs) - SumAmounts(bridge_fee_msgs)
        + bridge_returned

create_bridge_order_result(target_chain_id, secret_hash, timelock_seconds, funds) ==
    IF target_chain_id \notin DOMAIN CHAIN_CONFIGS THEN "NotFound"
    ELSE IF ~CHAIN_CONFIGS[target_chain_id].is_active THEN "ChainNotSupported"
    ELSE IF timelock_seconds < BRIDGE_CONFIG.min_timelock_duration
            \/ timelock_seconds > BRIDGE_CONFIG.max_timelock_duration
         THEN "InvalidTimelock"
    ELSE IF ~IsHex64(secret_hash) THEN "InvalidSecretHash"
    ELSE IF funds = <<>> THEN "InvalidAmount"
    ELSE IF funds[1] = 0 THEN "InvalidAmount"
    ELSE "Ok"

execute_create_bridge_order(sender, target_chain_id, recipient, secret_hash, timelock_seconds, funds) ==
    LET res == create_bridge_order_result(target_chain_id, secret_hash,
                                          timelock_seconds, funds)
        counter == BRIDGE_ORDER_COUNTER
        order == [order_id |-> counter, initiator |-> sender, source_chain_id |-> 1,
                  target_chain_id |-> target_chain_id, recipient |-> recipient,
                  amount |-> funds[1], secret_hash |-> secret_hash,
                  timelock |-> now + timelock_seconds, status |-> "Pending",
                  created_at |-> now, completed_at |-> None, secret |-> None,
                  ibc_packet_sequence |-> None]
    IN /\ BRIDGE_ORDER_COUNTER < MaxBridgeOrders
       /\ IF res = "Ok"
          THEN /\ BRIDGE_ORDER_COUNTER' = counter + 1
               /\ BRIDGE_ORDERS' = [i \in DOMAIN BRIDGE_ORDERS \cup {counter} |->
                                       IF i = counter THEN order ELSE BRIDGE_ORDERS[i]]
               /\ bridge_msgs' = [i \in DOMAIN BRIDGE_ORDERS \cup {counter} |->
                                       IF i = counter THEN <<>> ELSE bridge_msgs[i]]
          ELSE UNCHANGED <<BRIDGE_ORDER_COUNTER, BRIDGE_ORDERS, bridge_msgs>>
       /\ last' = Call("execute_create_bridge_order", counter, res, <<>>)
       /\ UNCHANGED <<IBC_TRANSFERS, CHAIN_CONFIGS, BRIDGE_CONFIG, now, ibc_finalized, ibc_acked_ok,
                      bridge_returned>>

\* total_fee of execute_complete_bridge_order: the protocol's share and the
\* target chain's share of the amount, each rounded down.
bridge_total_fee(order) ==
    LET base_fee == (order.amount * BRIDGE_CONFIG.protocol_fee_bps) \div 10000
        chain_fee == (order.amount * CHAIN_CONFIGS[order.target_chain_id].fee_multiplier)
                     \div 10000
    IN base_fee + chain_fee

\* The checks of execute_complete_bridge_order, in the order of the code.
complete_bridge_order_result(order_id, secret) ==
    IF order_id \notin DOMAIN BRIDGE_ORDERS THEN "NotFound"
    ELSE LET order == BRIDGE_ORDERS[order_id]
         IN IF order.status = "Completed" THEN "OrderAlreadyCompleted"
            ELSE IF order.status = "Refunded" THEN "OrderAlreadyRefunded"
            ELSE IF order.status = "Failed" THEN "OrderAlreadyRefunded"
            ELSE IF now >= order.timelock THEN "TimelockExpired"
            ELSE IF Sha256Hex(secret) # order.secret_hash THEN "InvalidSecret"
            ELSE IF order.target_chain_id \notin DOMAIN CHAIN_CONFIGS THEN "NotFound"
            ELSE IF bridge_total_fee(order) > order.amount
                 THEN "attempt to subtract with overflow"
            ELSE "Ok"

bridge_transfer_amount(order) == order.amount - bridge_total_fee(order)

execute_complete_bridge_order(order_id, secret) ==
    LET checked == complete_bridge_order_result(order_id, secret)
        order == BRIDGE_ORDERS[order_id]
        target_chain == CHAIN_CONFIGS[order.target_chain_id]
        transfer_amount == bridge_transfer_amount(order)
        res == IF checked = "Ok" /\ transfer_amount > bridge_balance
               THEN BankInsufficientFunds ELSE checked
        packet_sequence == BRIDGE_ORDER_COUNTER + 1
        ibc_transfer == [order_id |-> order_id, packet_sequence |-> packet_sequence,
                         channel_id |-> target_chain.ibc_channel,
                         receiver |-> order.recipient, amount |-> transfer_amount,
                         timeout_timestamp |->
                             now + BRIDGE_CONFIG.ibc_timeout_seconds]
        msgs == IF res = "Ok" THEN <<Send(order.recipient, transfer_amount)>> ELSE <<>>
    IN /\ (res = "Ok") => Len(bridge_msgs[order_id]) < MaxBridgeMsgs
       /\ IF res = "Ok"
          THEN /\ BRIDGE_ORDERS' = [BRIDGE_ORDERS EXCEPT ![order_id] =
                                       [@ EXCEPT !.status = "Active",
                                                 !.secret = Some(secret),
                                                 !.ibc_packet_sequence =
                                                     Some(packet_sequence)]]
               /\ IBC_TRANSFERS' =
                     [s \in DOMAIN IBC_TRANSFERS \cup {packet_sequence} |->
                         IF s = packet_sequence THEN ibc_transfer ELSE IBC_TRANSFERS[s]]
               /\ bridge_msgs' = [bridge_msgs EXCEPT ![order_id] = @ \o msgs]
          ELSE UNCHANGED <<BRIDGE_ORDERS, IBC_TRANSFERS, bridge_msgs>>
       /\ last' = Call("execute_complete_bridge_order", order_id, res, msgs)
       /\ UNCHANGED <<BRIDGE_ORDER_COUNTER, CHAIN_CONFIGS, BRIDGE_CONFIG, now, ibc_finalized, ibc_acked_ok,
                      bridge_returned>>

\* The checks of execute_refund_bridge_order, in the order of the code.
refund_bridge_order_result(sender, order_id) ==
    IF order_id \notin DOMAIN BRIDGE_ORDERS THEN "NotFound"
    ELSE LET order == BRIDGE_ORDERS[order_id]
         IN IF sender # order.initiator THEN "Unauthorized"
            ELSE IF order.status = "Completed" THEN "OrderAlreadyCompleted"
            ELSE IF order.status = "Refunded" THEN "OrderAlreadyRefunded"
            ELSE IF now < order.timelock THEN "TimelockNotExpired"
            ELSE "Ok"

execute_refund_bridge_order(sender, order_id) ==
    LET checked == refund_bridge_order_result(sender, order_id)
        order == BRIDGE_ORDERS[order_id]
        res == IF checked = "Ok" /\ order.amount > bridge_balance
               THEN BankInsufficientFunds ELSE checked
        msgs == IF res = "Ok" THEN <<Send(order.initiator, order.amount)>> ELSE <<>>
    IN /\ IF res = "Ok"
          THEN /\ BRIDGE_ORDERS' = [BRIDGE_ORDERS EXCEPT ![order_id] =
                                       [@ EXCEPT !.status = "Refunded",
                                                 !.completed_at = Some(now)]]
               /\ bridge_msgs' = [bridge_msgs EXCEPT ![order_id] = @ \o msgs]
          ELSE UNCHANGED <<BRIDGE_ORDERS, bridge_msgs>>
       /\ last' = Call("execute_refund_bridge_order", order_id, res, msgs)
       /\ UNCHANGED <<BRIDGE_ORDER_COUNTER, IBC_TRANSFERS, CHAIN_CONFIGS, BRIDGE_CONFIG, now, ibc_finalized, ibc_acked_ok,
                      bridge_returned>>

\* The transfer record of sequence is dropped.
remove_ibc_transfer(sequence) ==
    [s \in DOMAIN IBC_TRANSFERS \ {sequence} |-> IBC_TRANSFERS[s]]

\* ibc_packet_ack and ibc_packet_timeout with the transfer record left in place;
\* the chain returns the coins of a sequence once.
finalize_ibc_transfer_kept(sequence, new_status) ==
    IF sequence \in DOMAIN IBC_TRANSFERS
    THEN /\ BRIDGE_ORDERS' =
               IF IBC_TRANSFERS[sequence].order_id \in DOMAIN BRIDGE_ORDERS
               THEN [BRIDGE_ORDERS EXCEPT ![IBC_TRANSFERS[sequence].order_id] =
                        [@ EXCEPT !.status = new_status]]
               ELSE BRIDGE_ORDERS
         /\ UNCHANGED IBC_TRANSFERS
         /\ ibc_finalized' = ibc_finalized \cup {sequence}
         /\ ibc_acked_ok' =
               IF new_status = "Completed"
                  /\ IBC_TRANSFERS[sequence].order_id \in DOMAIN BRIDGE_ORDERS
               THEN ibc_acked_ok \cup {IBC_TRANSFERS[sequence].order_id}
               ELSE ibc_acked_ok
         /\ bridge_returned' =
               IF new_status = "Failed" /\ sequence \notin ibc_finalized
               THEN bridge_returned + IBC_TRANSFERS[sequence].amount
               ELSE bridge_returned
    ELSE UNCHANGED <<BRIDGE_ORDERS, IBC_TRANSFERS, ibc_finalized, ibc_acked_ok,
                     bridge_returned>>

\* ibc_packet_ack and ibc_packet_timeout set the status of the order that the
\* transfer record of the sequence names; new_status is Completed or Failed.
\* A transfer that failed or timed out comes back: the chain credits the
\* record's amount to the contract.
finalize_ibc_transfer(sequence, new_status) ==
    IF sequence \in DOMAIN IBC_TRANSFERS
    THEN /\ BRIDGE_ORDERS' =
               IF IBC_TRANSFERS[sequence].order_id \in DOMAIN BRIDGE_ORDERS
               THEN [BRIDGE_ORDERS EXCEPT ![IBC_TRANSFERS[sequence].order_id] =
                        [@ EXCEPT !.status = new_status]]
               ELSE BRIDGE_ORDERS
         /\ IBC_TRANSFERS' = remove_ibc_transfer(sequence)
         /\ ibc_finalized' = ibc_finalized \cup {sequence}
         /\ ibc_acked_ok' =
               IF new_status = "Completed"
                  /\ IBC_TRANSFERS[sequence].order_id \in DOMAIN BRIDGE_ORDERS
               THEN ibc_acked_ok \cup {IBC_TRANSFERS[sequence].order_id}
               ELSE ibc_acked_ok
         /\ bridge_returned' =
               IF new_status = "Failed"
               THEN bridge_returned + IBC_TRANSFERS[sequence].amount
               ELSE bridge_returned
    ELSE UNCHANGED <<BRIDGE_ORDERS, IBC_TRANSFERS, ibc_finalized, ibc_acked_ok,
                     bridge_returned>>

\* ibc_packet_ack; the call is recorded with the acknowledgement it carried.
ibc_packet_ack(sequence, success) ==
    /\ finalize_ibc_transfer(sequence, IF success THEN "Completed" ELSE "Failed")
    /\ last' = Call(IF success THEN "ibc_packet_ack_success" ELSE "ibc_packet_ack_error",
                     sequence, "Ok", <<>>)
    /\ UNCHANGED <<BRIDGE_ORDER_COUNTER, CHAIN_CONFIGS, BRIDGE_CONFIG, bridge_msgs, now>>

ibc_packet_timeout(sequence) ==
    /\ finalize_ibc_transfer(sequence, "Failed")
    /\ last' = Call("ibc_packet_timeout", sequence, "Ok", <<>>)
    /\ UNCHANGED <<BRIDGE_ORDER_COUNTER, CHAIN_CONFIGS, BRIDGE_CONFIG, bridge_msgs, now>>

\* process_ibc_message without the comparison of the secret's hash.
process_ibc_message_result_unverified(order_id, secret) ==
    IF order_id \notin DOMAIN BRIDGE_ORDERS THEN "NotFound" ELSE "Ok"

\* process_ibc_message: the error, or "Ok".
process_ibc_message_result(order_id, secret) ==
    IF order_id \notin DOMAIN BRIDGE_ORDERS THEN "NotFound"
    ELSE IF Sha256Hex(secret) # BRIDGE_ORDERS[order_id].secret_hash THEN "InvalidSecret"
    ELSE "Ok"

\* ibc_packet_receive of a packet that carries IbcExecuteMsg {order_id, secret}.
\* The handler itself always returns Ok; the result recorded for the call is
\* the acknowledgement it sets: "Ok" for success, the error otherwise.
ibc_packet_receive(order_id, secret) ==
    LET res == process_ibc_message_result(order_id, secret)
    IN /\ IF res = "Ok"
          THEN BRIDGE_ORDERS' = [BRIDGE_ORDERS EXCEPT ![order_id] =
                                    [@ EXCEPT !.status = "Completed",
                                              !.completed_at = Some(now),
                                              !.secret = Some(secret)]]
          ELSE UNCHANGED BRIDGE_ORDERS
       /\ last' = Call("ibc_packet_receive", order_id, res, <<>>)
       /\ UNCHANGED <<BRIDGE_ORDER_COUNTER, IBC_TRANSFERS, CHAIN_CONFIGS, BRIDGE_CONFIG, bridge_msgs,
                      now, ibc_finalized, ibc_acked_ok,
                      bridge_returned>>

\* ExecuteMsg::UpdateChainConfig: the owner stores config under chain_id.
execute_update_chain_config(sender, chain_id, config) ==
    LET res == IF sender # BRIDGE_CONFIG.owner THEN "Unauthorized" ELSE "Ok"
    IN /\ CHAIN_CONFIGS' =
             IF res = "Ok"
             THEN [c \in DOMAIN CHAIN_CONFIGS \cup {chain_id} |->
                      IF c = chain_id THEN config ELSE CHAIN_CONFIGS[c]]
             ELSE CHAIN_CONFIGS
       /\ last' = Call("execute_update_chain_config", chain_id, res, <<>>)
       /\ UNCHANGED <<BRIDGE_ORDERS, BRIDGE_ORDER_COUNTER, IBC_TRANSFERS, BRIDGE_CONFIG,
                      bridge_msgs, now, ibc_finalized, ibc_acked_ok,
                      bridge_returned>>

\* ExecuteMsg::RemoveChainConfig: the owner drops the entry of chain_id.
execute_remove_chain_config(sender, chain_id) ==
    LET res == IF sender # BRIDGE_CONFIG.owner THEN "Unauthorized" ELSE "Ok"
    IN /\ CHAIN_CONFIGS' =
             IF res = "Ok"
             THEN [c \in DOMAIN CHAIN_CONFIGS \ {chain_id} |-> CHAIN_CONFIGS[c]]
             ELSE CHAIN_CONFIGS
       /\ last' = Call("execute_remove_chain_config", chain_id, res, <<>>)
       /\ UNCHANGED <<BRIDGE_ORDERS, BRIDGE_ORDER_COUNTER, IBC_TRANSFERS, BRIDGE_CONFIG,
                      bridge_msgs, now, ibc_finalized, ibc_acked_ok,
                      bridge_returned>>

\* The Config of the bridge with every field that msg carries replaced.
bridge_updated_config(config, msg) ==
    [owner |-> IF msg.owner = None THEN config.owner ELSE msg.owner[1],
     protocol_fee_bps |-> IF msg.protocol_fee_bps = None
                          THEN config.protocol_fee_bps ELSE msg.protocol_fee_bps[1],
     min_timelock_duration |-> IF msg.min_timelock_duration = None
                               THEN config.min_timelock_duration
                               ELSE msg.min_timelock_duration[1],
     max_timelock_duration |-> IF msg.max_timelock_duration = None
                               THEN config.max_timelock_duration
                               ELSE msg.max_timelock_duration[1],
     ibc_timeout_seconds |-> IF msg.ibc_timeout_seconds = None
                             THEN config.ibc_timeout_seconds
                             ELSE msg.ibc_timeout_seconds[1]]

\* ExecuteMsg::UpdateConfig of the bridge.
bridge_update_config(sender, msg) ==
    LET res == IF sender # BRIDGE_CONFIG.owner THEN "Unauthorized"
               ELSE IF msg.owner # None /\ ~addr_validate(msg.owner[1]) THEN "Std"
               ELSE "Ok"
    IN /\ BRIDGE_CONFIG' = IF res = "Ok" THEN bridge_updated_config(BRIDGE_CONFIG, msg)
                           ELSE BRIDGE_CONFIG
       /\ last' = Call("bridge_update_config", 0, res, <<>>)
       /\ UNCHANGED <<BRIDGE_ORDERS, BRIDGE_ORDER_COUNTER, IBC_TRANSFERS, CHAIN_CONFIGS,
                      bridge_msgs, now, ibc_finalized, ibc_acked_ok,
                      bridge_returned>>

\* The contract's storage after instantiate.
BridgeNew ==
    /\ ibc_finalized = {}
    /\ ibc_acked_ok = {}
    /\ bridge_returned = 0
    /\ BRIDGE_ORDERS = <<>>
    /\ BRIDGE_ORDER_COUNTER = 0
    /\ IBC_TRANSFERS = <<>>
    /\ CHAIN_CONFIGS = BridgeInitialChains
    /\ BRIDGE_CONFIG = BridgeInstantiate
    /\ bridge_msgs = <<>>

(***************************************************************************)
(* Cosmos resolver (contracts/resolver/src/contract.rs)                    *)
(***************************************************************************)
\* Bounds: orders deployed in one behaviour, and bank messages emitted for
\* one order (a source-chain withdraw can be repeated).
MaxResolverOrders == 1
MaxResolverMsgs == 4

ResolverAddrs == {"alice", "rita", "bob"}
\* The initiator named by DeploySrc: an address, or a text that is none.
ResolverInitiators == {"alice", ""}
\* InstantiateMsg of the resolver, sent by the owner.
ResolverInstantiate ==
    [owner |-> "owner", atomic_swap_contract |-> "atomic_swap",
     bridge_contract |-> "bridge"]
\* Senders and messages of UpdateConfig.
ResolverOwners == {"owner", "mallory"}
ResolverConfigUpdates ==
    {[owner |-> Some("mallory"), atomic_swap_contract |-> None,
      bridge_contract |-> Some("bridge2")],
     [owner |-> None, atomic_swap_contract |-> Some(""), bridge_contract |-> None]}
ResolverBlockTimes == {0, 3599, 3600, 3601}
ResolverTimelockInputs == {0, 3600}
ResolverSecrets == {"s1", "s2"}
ResolverHashInputs == {"d1", "zz"}
Coin(denom, amount) == [denom |-> denom, amount |-> amount]
ResolverSrcAmounts == {Coin("uatom", 0), Coin("uatom", 1000)}
ResolverSafetyDeposits == {Coin("uatom", 0), Coin("uatom", 100), Coin("uosmo", 100)}
ResolverFundsInputs ==
    {<<>>, <<Coin("uatom", 1000)>>, <<Coin("uatom", 1100)>>,
     <<Coin("uatom", 1000), Coin("uosmo", 100)>>}

\* info.funds.iter().find(|c| c.denom == denom): Some(coin) or None.
find_coin(funds, denom) ==
    IF \E i \in 1..Len(funds) : funds[i].denom = denom
    THEN Some(funds[CHOOSE i \in 1..Len(funds) :
                       /\ funds[i].denom = denom
                       /\ \A j \in 1..(i - 1) : funds[j].denom # denom])
    ELSE None

deploy_src_result(initiator, src_amount, secret_hash, safety_deposit, timelock_seconds, funds) ==
    LET total_required == IF src_amount.denom = safety_deposit.denom
                          THEN src_amount.amount + safety_deposit.amount
                          ELSE src_amount.amount
        payment == find_coin(funds, src_amount.denom)
        safety_payment == find_coin(funds, safety_deposit.denom)
    IN IF src_amount.amount = 0 THEN "InvalidAmount"
       ELSE IF safety_deposit.amount = 0 THEN "InsufficientSafetyDeposit"
       ELSE IF ~IsHex64(secret_hash) THEN "InvalidSecretHash"
       ELSE IF now + timelock_seconds <= now THEN "InvalidTimelock"
       ELSE IF (IF payment = None THEN TRUE ELSE payment[1].amount < total_required)
            THEN "InsufficientFunds"
       ELSE IF src_amount.denom # safety_deposit.denom
               /\ (IF safety_payment = None THEN TRUE
                   ELSE safety_payment[1].amount < safety_deposit.amount)
            THEN "InsufficientSafetyDeposit"
       ELSE IF ~addr_validate(initiator) THEN "Std"
       ELSE "Ok"

execute_deploy_src(sender, initiator, src_amount, secret_hash, safety_deposit, timelock_seconds, funds) ==
    LET res == deploy_src_result(initiator, src_amount, secret_hash, safety_deposit,
                                 timelock_seconds, funds)
        order_id == RESOLVER_ORDER_COUNTER + 1
        order == [order_id |-> order_id, initiator |-> initiator, resolver |-> sender,
                  src_amount |-> src_amount, safety_deposit |-> safety_deposit,
                  secret_hash |-> secret_hash,
                  src_timelock |-> now + timelock_seconds,
                  dst_timelock |-> now + timelock_seconds + 3600,
                  src_deployed |-> TRUE, dst_deployed |-> FALSE,
                  completed |-> FALSE, cancelled |-> FALSE, secret |-> None]
    IN /\ RESOLVER_ORDER_COUNTER < MaxResolverOrders
       /\ IF res = "Ok"
          THEN /\ RESOLVER_ORDER_COUNTER' = order_id
               /\ ORDERS' = [i \in DOMAIN ORDERS \cup {order_id} |->
                                IF i = order_id THEN order ELSE ORDERS[i]]
               /\ SECRET_HASH_TO_ORDER_ID' =
                     [h \in DOMAIN SECRET_HASH_TO_ORDER_ID \cup {secret_hash} |->
                         IF h = secret_hash THEN order_id
                         ELSE SECRET_HASH_TO_ORDER_ID[h]]
               /\ resolver_msgs' = [i \in DOMAIN ORDERS \cup {order_id} |->
                                IF i = order_id THEN <<>> ELSE resolver_msgs[i]]
          ELSE UNCHANGED <<RESOLVER_ORDER_COUNTER, ORDERS, SECRET_HASH_TO_ORDER_ID,
                           resolver_msgs>>
       /\ last' = Call("execute_deploy_src", order_id, res, <<>>)
       /\ UNCHANGED <<RESOLVER_CONFIG, now>>

\* The checks of execute_deploy_dst, in the order of the code.
deploy_dst_result(sender, order_id) ==
    IF order_id \notin DOMAIN ORDERS THEN "NotFound"
    ELSE IF sender # ORDERS[order_id].resolver THEN "NotResolver"
    ELSE IF ~ORDERS[order_id].src_deployed THEN "SourceNotDeployed"
    ELSE IF ORDERS[order_id].dst_deployed THEN "DestinationAlreadyDeployed"
    ELSE "Ok"

execute_deploy_dst(sender, order_id) ==
    LET res == deploy_dst_result(sender, order_id)
    IN /\ IF res = "Ok"
          THEN ORDERS' = [ORDERS EXCEPT ![order_id] = [@ EXCEPT !.dst_deployed = TRUE]]
          ELSE UNCHANGED ORDERS
       /\ last' = Call("execute_deploy_dst", order_id, res, <<>>)
       /\ UNCHANGED <<RESOLVER_ORDER_COUNTER, SECRET_HASH_TO_ORDER_ID, resolver_msgs,
                      RESOLVER_CONFIG, now>>

\* The checks of execute_withdraw, in the order of the code.
resolver_withdraw_result(sender, order_id, secret, is_source_chain) ==
    IF order_id \notin DOMAIN ORDERS THEN "NotFound"
    ELSE LET order == ORDERS[order_id]
         IN IF order.completed THEN "OrderAlreadyCompleted"
            ELSE IF order.cancelled THEN "OrderAlreadyCancelled"
            ELSE IF Sha256Hex(secret) # order.secret_hash THEN "InvalidSecret"
            ELSE IF is_source_chain
                 THEN (IF sender # order.resolver THEN "NotResolver"
                       ELSE IF now > order.src_timelock THEN "TimelockExpired"
                       ELSE "Ok")
                 ELSE (IF sender # order.initiator THEN "Unauthorized" ELSE "Ok")

execute_withdraw(sender, order_id, secret, is_source_chain) ==
    LET res == resolver_withdraw_result(sender, order_id, secret, is_source_chain)
        order == ORDERS[order_id]
        msgs == IF res = "Ok" /\ is_source_chain
                THEN <<Send(order.resolver, order.src_amount),
                       Send(order.resolver, order.safety_deposit)>>
                ELSE <<>>
    IN /\ (res = "Ok" /\ is_source_chain)
            => Len(resolver_msgs[order_id]) + 2 <= MaxResolverMsgs
       /\ IF res = "Ok"
          THEN /\ ORDERS' = IF is_source_chain THEN ORDERS
                            ELSE [ORDERS EXCEPT ![order_id] =
                                     [@ EXCEPT !.completed = TRUE,
                                               !.secret = Some(secret)]]
               /\ resolver_msgs' = [resolver_msgs EXCEPT ![order_id] = @ \o msgs]
          ELSE UNCHANGED <<ORDERS, resolver_msgs>>
       /\ last' = Call(IF is_source_chain THEN "execute_withdraw_src"
                       ELSE "execute_withdraw_dst", order_id, res, msgs)
       /\ UNCHANGED <<RESOLVER_ORDER_COUNTER, SECRET_HASH_TO_ORDER_ID, RESOLVER_CONFIG, now>>

\* The checks of execute_cancel, in the order of the code.
resolver_cancel_result(sender, order_id) ==
    IF order_id \notin DOMAIN ORDERS THEN "NotFound"
    ELSE LET order == ORDERS[order_id]
         IN IF order.completed THEN "OrderAlreadyCompleted"
            ELSE IF order.cancelled THEN "OrderAlreadyCancelled"
            ELSE IF now <= order.src_timelock THEN "TimelockNotExpired"
            ELSE IF sender # order.initiator /\ sender # order.resolver
                 THEN "Unauthorized"
            ELSE "Ok"

execute_cancel(sender, order_id) ==
    LET res == resolver_cancel_result(sender, order_id)
        order == ORDERS[order_id]
        msgs == IF res = "Ok" /\ order.src_deployed
                THEN <<Send(order.initiator, order.src_amount),
                       Send(order.resolver, order.safety_deposit)>>
                ELSE <<>>
    IN /\ IF res = "Ok"
          THEN /\ ORDERS' = [ORDERS EXCEPT ![order_id] = [@ EXCEPT !.cancelled = TRUE]]
               /\ resolver_msgs' = [resolver_msgs EXCEPT ![order_id] = @ \o msgs]
          ELSE UNCHANGED <<ORDERS, resolver_msgs>>
       /\ last' = Call("execute_cancel", order_id, res, msgs)
       /\ UNCHANGED <<RESOLVER_ORDER_COUNTER, SECRET_HASH_TO_ORDER_ID, RESOLVER_CONFIG, now>>

\* query_order_by_secret_hash: Some(order_id), or None for the load error.
query_order_by_secret_hash(secret_hash) ==
    IF secret_hash \in DOMAIN SECRET_HASH_TO_ORDER_ID
    THEN Some(SECRET_HASH_TO_ORDER_ID[secret_hash]) ELSE None

\* The Err of a query's StdResult: NotFound of ORDERS.load, GenericErr of
\* addr_validate.
QueryErr(kind) == [err |-> kind]

\* query_can_withdraw: the CanWithdrawResponse, or the error of the load of the
\* order or of the validation of user.
query_can_withdraw(order_id, user) ==
    LET order == ORDERS[order_id]
        response(b, reason) == [can_withdraw |-> b, reason |-> reason]
    IN IF order_id \notin DOMAIN ORDERS THEN QueryErr("NotFound")
       ELSE IF ~addr_validate(user) THEN QueryErr("GenericErr")
       ELSE IF order.completed THEN response(FALSE, Some("Order already completed"))
       ELSE IF order.cancelled THEN response(FALSE, Some("Order cancelled"))
       ELSE IF user = order.resolver /\ now <= order.src_timelock THEN response(TRUE, None)
       ELSE IF user = order.initiator /\ order.dst_deployed THEN response(TRUE, None)
       ELSE response(FALSE, Some("Not authorized or conditions not met"))

\* query_can_cancel: the CanCancelResponse, or the error of the load of the order.
query_can_cancel(order_id) ==
    LET order == ORDERS[order_id]
        response(b, reason) == [can_cancel |-> b, reason |-> reason]
    IN IF order_id \notin DOMAIN ORDERS THEN QueryErr("NotFound")
       ELSE IF order.completed THEN response(FALSE, Some("Order already completed"))
       ELSE IF order.cancelled THEN response(FALSE, Some("Order already cancelled"))
       ELSE IF now <= order.src_timelock THEN response(FALSE, Some("Timelock not expired"))
       ELSE response(TRUE, None)

\* The checks of the resolver's execute_update_config, in the order of the code.
resolver_update_config_result(sender, msg) ==
    IF sender # RESOLVER_CONFIG.owner THEN "Unauthorized"
    ELSE IF msg.owner # None /\ ~addr_validate(msg.owner[1]) THEN "Std"
    ELSE IF msg.atomic_swap_contract # None /\ ~addr_validate(msg.atomic_swap_contract[1])
         THEN "Std"
    ELSE IF msg.bridge_contract # None /\ ~addr_validate(msg.bridge_contract[1])
         THEN "Std"
    ELSE "Ok"

\* ExecuteMsg::UpdateConfig of the resolver: each Some field replaces.
resolver_update_config(sender, msg) ==
    LET res == resolver_update_config_result(sender, msg)
        config == [owner |-> IF msg.owner = None THEN RESOLVER_CONFIG.owner
                             ELSE msg.owner[1],
                   atomic_swap_contract |->
                       IF msg.atomic_swap_contract = None
                       THEN RESOLVER_CONFIG.atomic_swap_contract
                       ELSE msg.atomic_swap_contract[1],
                   bridge_contract |->
                       IF msg.bridge_contract = None
                       THEN RESOLVER_CONFIG.bridge_contract
                       ELSE msg.bridge_contract[1]]
    IN /\ RESOLVER_CONFIG' = IF res = "Ok" THEN config ELSE RESOLVER_CONFIG
       /\ last' = Call("resolver_update_config", 0, res, <<>>)
       /\ UNCHANGED <<ORDERS, RESOLVER_ORDER_COUNTER, SECRET_HASH_TO_ORDER_ID,
                      resolver_msgs, now>>

\* The contract's storage after instantiate.
ResolverNew ==
    /\ ORDERS = <<>>
    /\ RESOLVER_ORDER_COUNTER = 0
    /\ SECRET_HASH_TO_ORDER_ID = <<>>
    /\ resolver_msgs = <<>>
    /\ RESOLVER_CONFIG = ResolverInstantiate

(***************************************************************************)
(* NEAR FusionHTLCContract (fusion_htlc.rs) and FusionHTLC                 *)
(* (fusion_htlc_simple.rs).  current_time is block_timestamp / 10^9; the   *)
(* model keeps block time in whole seconds.                                *)
(***************************************************************************)
\* Bounds on the number of HTLCs created in one behaviour.
MaxNearHtlcs == 2
\* Bounds on the number of safety deposits created in one behaviour.
MaxNearDeposits == 1
MaxPlusDeposits == 1
MaxSimpleHtlcs == 1

MIN_TIMELOCK_DURATION == 3600
MAX_TIMELOCK_DURATION == 2592000

NearAddrs == {"alice", "bob"}
NearBlockTimes == {0, 3599, 3600, 3601, 7200}
NearTimelockInputs == {3599, 3600, 2592001}
NearDepositInputs == {0, 1000}
\* Secrets are hexadecimal strings: "0a" and "0A" spell the same bytes, "0b"
\* other bytes, "zz" is not hexadecimal.
NearSecrets == {"0a", "0A", "0b", "zz"}
\* Strings offered as hashlock: the lower-case digest of the bytes 0a, the same
\* digest in upper case (both 64 characters), and a string of another length.
NearHashInputs == {"d1", "D1", "short"}
\* The NEP-141 token contract.
NearTokens == {"usdc.near"}
\* The amounts create_token_htlc and ft_on_transfer are called with.
NearTokenAmounts == {0, 7}
\* The msg texts of ft_on_transfer.
NearFtMessages ==
    {[json |-> FALSE, action |-> None, receiver |-> None, hashlock |-> None,
      timelock_seconds |-> None],
     [json |-> TRUE, action |-> None, receiver |-> None, hashlock |-> None,
      timelock_seconds |-> None],
     [json |-> TRUE, action |-> Some("withdraw"), receiver |-> Some("bob"),
      hashlock |-> Some("d1"), timelock_seconds |-> Some(3600)],
     [json |-> TRUE, action |-> Some("create_htlc"), receiver |-> None,
      hashlock |-> Some("d1"), timelock_seconds |-> Some(3600)],
     [json |-> TRUE, action |-> Some("create_htlc"), receiver |-> Some("Bob!"),
      hashlock |-> Some("d1"), timelock_seconds |-> Some(3600)],
     [json |-> TRUE, action |-> Some("create_htlc"), receiver |-> Some("bob"),
      hashlock |-> None, timelock_seconds |-> Some(3600)],
     [json |-> TRUE, action |-> Some("create_htlc"), receiver |-> Some("bob"),
      hashlock |-> Some("d1"), timelock_seconds |-> None],
     [json |-> TRUE, action |-> Some("create_htlc"), receiver |-> Some("bob"),
      hashlock |-> Some("d1"), timelock_seconds |-> Some(3600)]}

\* hashlock.len() == HASH_LENGTH * 2
IsLen64(h) == h # "short"

\* hex::decode(&secret): the bytes, or None when the string is not hexadecimal.
HexDecode(secret) ==
    CASE secret \in {"0a", "0A"} -> Some(10)
      [] secret = "0b" -> Some(11)
      [] OTHER -> None

\* hex::encode(Sha256(bytes)): lower-case hexadecimal.
Sha256HexOfBytes(bytes) ==
    CASE bytes = 10 -> "d1"
      [] bytes = 11 -> "d2"
      [] OTHER -> "d0"

near_create_result(amount, hashlock, timelock_seconds) ==
    IF ~(amount > 0) THEN "Amount must be greater than 0"
    ELSE IF ~IsLen64(hashlock) THEN "Invalid hashlock length"
    ELSE IF ~(timelock_seconds >= MIN_TIMELOCK_DURATION) THEN "Timelock too short"
    ELSE IF ~(timelock_seconds <= MAX_TIMELOCK_DURATION) THEN "Timelock too long"
    ELSE "Ok"

near_create_htlc(sender, amount, receiver, hashlock, timelock_seconds) ==
    LET res == near_create_result(amount, hashlock, timelock_seconds)
        htlc_id == next_htlc_id
        htlc == [id |-> htlc_id, sender |-> sender, receiver |-> receiver,
                 token_id |-> None, amount |-> amount, hashlock |-> hashlock,
                 timelock |-> now + timelock_seconds, secret |-> None,
                 withdrawn |-> FALSE, refunded |-> FALSE, created_at |-> now]
    IN /\ next_htlc_id <= MaxNearHtlcs
       /\ IF res = "Ok"
          THEN /\ next_htlc_id' = next_htlc_id + 1
               /\ htlcs' = [i \in DOMAIN htlcs \cup {htlc_id} |->
                               IF i = htlc_id THEN htlc ELSE htlcs[i]]
               /\ secret_to_htlc' = [h \in DOMAIN secret_to_htlc \cup {hashlock} |->
                               IF h = hashlock THEN htlc_id ELSE secret_to_htlc[h]]
               /\ htlc_transfers' = [i \in DOMAIN htlcs \cup {htlc_id} |->
                               IF i = htlc_id THEN <<>> ELSE htlc_transfers[i]]
          ELSE UNCHANGED <<htlcs, secret_to_htlc, next_htlc_id, htlc_transfers>>
       /\ last' = Call("near_create_htlc", htlc_id, res, <<>>)
       /\ UNCHANGED <<safety_deposits, next_deposit_id, now>>

\* The storage writes of create_token_htlc: the HTLC under the next id, with
\* the token recorded, and the entry of its hashlock.
near_token_htlc_stored(sender, token_id, amount, receiver, hashlock, timelock_seconds) ==
    LET htlc_id == next_htlc_id
        htlc == [id |-> htlc_id, sender |-> sender, receiver |-> receiver,
                 token_id |-> Some(token_id), amount |-> amount, hashlock |-> hashlock,
                 timelock |-> now + timelock_seconds, secret |-> None,
                 withdrawn |-> FALSE, refunded |-> FALSE, created_at |-> now]
    IN /\ next_htlc_id' = next_htlc_id + 1
       /\ htlcs' = [i \in DOMAIN htlcs \cup {htlc_id} |->
                       IF i = htlc_id THEN htlc ELSE htlcs[i]]
       /\ secret_to_htlc' = [h \in DOMAIN secret_to_htlc \cup {hashlock} |->
                       IF h = hashlock THEN htlc_id ELSE secret_to_htlc[h]]
       /\ htlc_transfers' = [i \in DOMAIN htlcs \cup {htlc_id} |->
                       IF i = htlc_id THEN <<>> ELSE htlc_transfers[i]]

\* create_token_htlc: the HTLC of a NEP-141 token.  The method is public and
\* moves no tokens; sender is the predecessor account.
create_token_htlc(sender, token_id, amount, receiver, hashlock, timelock_seconds) ==
    LET res == near_create_result(amount, hashlock, timelock_seconds)
    IN /\ next_htlc_id <= MaxNearHtlcs
       /\ IF res = "Ok"
          THEN near_token_htlc_stored(sender, token_id, amount, receiver, hashlock,
                                      timelock_seconds)
          ELSE UNCHANGED <<htlcs, secret_to_htlc, next_htlc_id, htlc_transfers>>
       /\ last' = Call("create_token_htlc", next_htlc_id, res, <<>>)
       /\ UNCHANGED <<safety_deposits, next_deposit_id, now>>

\* AccountId::from_str accepts the receiver.
IsAccountId(s) == s # "Bob!"

\* The panics of ft_on_transfer, in the order of the code, then the require!s
\* of create_token_htlc.  msg.json is FALSE for a text that is not JSON; a
\* field that the object lacks is None.
ft_on_transfer_result(amount, msg) ==
    IF ~msg.json THEN "Invalid message"
    ELSE IF msg.action = None THEN "Missing action in message"
    ELSE IF msg.action[1] # "create_htlc" THEN "Unknown action"
    ELSE IF msg.receiver = None THEN "Missing receiver"
    ELSE IF ~IsAccountId(msg.receiver[1]) THEN "Invalid receiver"
    ELSE IF msg.hashlock = None THEN "Missing hashlock"
    ELSE IF msg.timelock_seconds = None THEN "Missing timelock"
    ELSE near_create_result(amount, msg.hashlock[1], msg.timelock_seconds[1])

\* ft_on_transfer, called by predecessor (the token contract) for a transfer
\* from sender_id: create_token_htlc runs with the predecessor both as
\* token_id and as the HTLC's sender; sender_id is not read.  The call
\* returns 0, the part of the amount that was not used.
ft_on_transfer(predecessor, sender_id, amount, msg) ==
    LET res == ft_on_transfer_result(amount, msg)
    IN /\ next_htlc_id <= MaxNearHtlcs
       /\ IF res = "Ok"
          THEN near_token_htlc_stored(predecessor, predecessor, amount,
                                      msg.receiver[1], msg.hashlock[1],
                                      msg.timelock_seconds[1])
          ELSE UNCHANGED <<htlcs, secret_to_htlc, next_htlc_id, htlc_transfers>>
       /\ last' = Call("ft_on_transfer", next_htlc_id, res, <<>>)
       /\ UNCHANGED <<safety_deposits, next_deposit_id, now>>

\* Promise::new(token_id).function_call("ft_transfer", ...) with one yoctoNEAR
\* attached; memo is the text before the id and the id.
FtTransfer(token_id, receiver_id, amount, memo) ==
    [to |-> token_id, method |-> "ft_transfer", receiver_id |-> receiver_id,
     amount |-> amount, memo |-> memo, deposit |-> 1]

\* The Promise that pays amount of htlc out to account.
near_payout(htlc_id, account, memo) ==
    IF htlcs[htlc_id].token_id # None
    THEN FtTransfer(htlcs[htlc_id].token_id[1], account, htlcs[htlc_id].amount,
                    <<memo, htlc_id>>)
    ELSE Send(account, htlcs[htlc_id].amount)

\* The require!s of FusionHTLCContract::withdraw, in the order of the code.
near_withdraw_result(withdrawer, htlc_id, secret) ==
    IF htlc_id \notin DOMAIN htlcs THEN "HTLC not found"
    ELSE IF htlcs[htlc_id].withdrawn THEN "Already withdrawn"
    ELSE IF htlcs[htlc_id].refunded THEN "Already refunded"
    ELSE IF ~(now < htlcs[htlc_id].timelock) THEN "HTLC expired"
    ELSE IF withdrawer # htlcs[htlc_id].receiver THEN "Not the receiver"
    ELSE IF HexDecode(secret) = None THEN "Invalid hex secret"
    ELSE IF Sha256HexOfBytes(HexDecode(secret)[1]) # htlcs[htlc_id].hashlock
         THEN "Invalid secret"
    ELSE "Ok"

near_withdraw(withdrawer, htlc_id, secret) ==
    LET res == near_withdraw_result(withdrawer, htlc_id, secret)
        msgs == IF res = "Ok"
                THEN <<near_payout(htlc_id, withdrawer, "HTLC withdraw")>> ELSE <<>>
    IN /\ IF res = "Ok"
          THEN /\ htlcs' = [htlcs EXCEPT ![htlc_id] =
                               [@ EXCEPT !.withdrawn = TRUE, !.secret = Some(secret)]]
               /\ htlc_transfers' = [htlc_transfers EXCEPT ![htlc_id] = @ \o msgs]
          ELSE UNCHANGED <<htlcs, htlc_transfers>>
       /\ last' = Call("near_withdraw", htlc_id, res, msgs)
       /\ UNCHANGED <<secret_to_htlc, next_htlc_id, safety_deposits, next_deposit_id, now>>

\* The require!s of FusionHTLCContract::refund, in the order of the code.
near_refund_result(refunder, htlc_id) ==
    IF htlc_id \notin DOMAIN htlcs THEN "HTLC not found"
    ELSE IF htlcs[htlc_id].withdrawn THEN "Already withdrawn"
    ELSE IF htlcs[htlc_id].refunded THEN "Already refunded"
    ELSE IF ~(now >= htlcs[htlc_id].timelock) THEN "HTLC not expired"
    ELSE IF refunder # htlcs[htlc_id].sender THEN "Not the sender"
    ELSE "Ok"

near_refund(refunder, htlc_id) ==
    LET res == near_refund_result(refunder, htlc_id)
        msgs == IF res = "Ok"
                THEN <<near_payout(htlc_id, refunder, "HTLC refund")>> ELSE <<>>
    IN /\ IF res = "Ok"
          THEN /\ htlcs' = [htlcs EXCEPT ![htlc_id] = [@ EXCEPT !.refunded = TRUE]]
               /\ htlc_transfers' = [htlc_transfers EXCEPT ![htlc_id] = @ \o msgs]
          ELSE UNCHANGED <<htlcs, htlc_transfers>>
       /\ last' = Call("near_refund", htlc_id, res, msgs)
       /\ UNCHANGED <<secret_to_htlc, next_htlc_id, safety_deposits, next_deposit_id, now>>

\* get_htlc_by_hashlock: Some(htlc) or None.
get_htlc_by_hashlock(hashlock) ==
    IF hashlock \in DOMAIN secret_to_htlc
    THEN (IF secret_to_htlc[hashlock] \in DOMAIN htlcs
          THEN Some(htlcs[secret_to_htlc[hashlock]]) ELSE None)
    ELSE None

\* The require!s of create_safety_deposit, in the order of the code.
near_deposit_result(htlc_id, amount) ==
    IF htlc_id \notin DOMAIN htlcs THEN "HTLC does not exist"
    ELSE IF ~(amount > 0) THEN "Deposit amount must be greater than 0"
    ELSE "Ok"

\* create_safety_deposit: the attached amount is booked under the next
\* deposit id for the predecessor account.
near_create_safety_deposit(resolver, amount, htlc_id) ==
    LET res == near_deposit_result(htlc_id, amount)
        deposit_id == next_deposit_id
        safety_deposit == [id |-> deposit_id, htlc_id |-> htlc_id, resolver |-> resolver,
                           amount |-> amount, created_at |-> now]
    IN /\ next_deposit_id <= MaxNearDeposits
       /\ IF res = "Ok"
          THEN /\ next_deposit_id' = next_deposit_id + 1
               /\ safety_deposits' =
                     [d \in DOMAIN safety_deposits \cup {deposit_id} |->
                         IF d = deposit_id THEN safety_deposit ELSE safety_deposits[d]]
          ELSE UNCHANGED <<safety_deposits, next_deposit_id>>
       /\ last' = Call("near_create_safety_deposit", deposit_id, res, <<>>)
       /\ UNCHANGED <<htlcs, secret_to_htlc, next_htlc_id, htlc_transfers, now>>

\* The expect and the require! of claim_safety_deposit.
near_claim_result(claimer, deposit_id) ==
    IF deposit_id \notin DOMAIN safety_deposits THEN "Deposit not found"
    ELSE IF claimer # safety_deposits[deposit_id].resolver THEN "Not the resolver"
    ELSE "Ok"

\* claim_safety_deposit: the deposit is removed and paid back, whatever the
\* state of its HTLC.
near_claim_safety_deposit(claimer, deposit_id) ==
    LET res == near_claim_result(claimer, deposit_id)
        msgs == IF res = "Ok"
                THEN <<Send(claimer, safety_deposits[deposit_id].amount)>> ELSE <<>>
    IN /\ safety_deposits' =
             IF res = "Ok"
             THEN [d \in DOMAIN safety_deposits \ {deposit_id} |-> safety_deposits[d]]
             ELSE safety_deposits
       /\ last' = Call("near_claim_safety_deposit", deposit_id, res, msgs)
       /\ UNCHANGED <<htlcs, secret_to_htlc, next_htlc_id, htlc_transfers,
                      next_deposit_id, now>>

\* FusionHTLCContract::new()
NearNew ==
    /\ htlcs = <<>>
    /\ secret_to_htlc = <<>>
    /\ next_htlc_id = 1
    /\ htlc_transfers = <<>>
    /\ safety_deposits = <<>>
    /\ next_deposit_id = 1

\* ---- fusion_htlc_simple.rs ----
MIN_TIMELOCK == 3600
MAX_TIMELOCK == 2592000

simple_create_result(amount, hashlock, timelock_seconds) ==
    IF ~(amount > 0) THEN "Amount must be greater than 0"
    ELSE IF ~IsLen64(hashlock) THEN "Invalid hashlock"
    ELSE IF ~(timelock_seconds >= MIN_TIMELOCK /\ timelock_seconds <= MAX_TIMELOCK)
         THEN "Invalid timelock"
    ELSE "Ok"

simple_create_htlc(sender, amount, receiver, hashlock, timelock_seconds) ==
    LET res == simple_create_result(amount, hashlock, timelock_seconds)
        htlc_id == next_id
        htlc == [sender |-> sender, receiver |-> receiver, amount |-> amount,
                 hashlock |-> hashlock, timelock |-> now + timelock_seconds,
                 secret |-> None, withdrawn |-> FALSE, refunded |-> FALSE]
    IN /\ next_id <= MaxSimpleHtlcs
       /\ IF res = "Ok"
          THEN /\ next_id' = next_id + 1
               /\ simple_htlcs' = [i \in DOMAIN simple_htlcs \cup {htlc_id} |->
                               IF i = htlc_id THEN htlc ELSE simple_htlcs[i]]
               /\ simple_transfers' = [i \in DOMAIN simple_htlcs \cup {htlc_id} |->
                               IF i = htlc_id THEN <<>> ELSE simple_transfers[i]]
          ELSE UNCHANGED <<simple_htlcs, next_id, simple_transfers>>
       /\ last' = Call("simple_create_htlc", htlc_id, res, <<>>)
       /\ UNCHANGED now

\* The require!s of FusionHTLC::withdraw, in the order of the code.
simple_withdraw_result(caller, htlc_id, secret) ==
    IF htlc_id \notin DOMAIN simple_htlcs THEN "HTLC not found"
    ELSE IF ~(~simple_htlcs[htlc_id].withdrawn /\ ~simple_htlcs[htlc_id].refunded)
         THEN "Already processed"
    ELSE IF caller # simple_htlcs[htlc_id].receiver THEN "Not receiver"
    ELSE IF ~(now < simple_htlcs[htlc_id].timelock) THEN "Expired"
    ELSE IF HexDecode(secret) = None THEN "Invalid hex"
    ELSE IF Sha256HexOfBytes(HexDecode(secret)[1]) # simple_htlcs[htlc_id].hashlock
         THEN "Invalid secret"
    ELSE "Ok"

simple_withdraw(caller, htlc_id, secret) ==
    LET res == simple_withdraw_result(caller, htlc_id, secret)
        htlc == simple_htlcs[htlc_id]
        msgs == IF res = "Ok" THEN <<Send(htlc.receiver, htlc.amount)>> ELSE <<>>
    IN /\ IF res = "Ok"
          THEN /\ simple_htlcs' = [simple_htlcs EXCEPT ![htlc_id] =
                               [@ EXCEPT !.withdrawn = TRUE, !.secret = Some(secret)]]
               /\ simple_transfers' = [simple_transfers EXCEPT ![htlc_id] = @ \o msgs]
          ELSE UNCHANGED <<simple_htlcs, simple_transfers>>
       /\ last' = Call("simple_withdraw", htlc_id, res, msgs)
       /\ UNCHANGED <<next_id, now>>

\* The require!s of FusionHTLC::refund, in the order of the code.
simple_refund_result(caller, htlc_id) ==
    IF htlc_id \notin DOMAIN simple_htlcs THEN "HTLC not found"
    ELSE IF ~(~simple_htlcs[htlc_id].withdrawn /\ ~simple_htlcs[htlc_id].refunded)
         THEN "Already processed"
    ELSE IF caller # simple_htlcs[htlc_id].sender THEN "Not sender"
    ELSE IF ~(now >= simple_htlcs[htlc_id].timelock) THEN "Not expired"
    ELSE "Ok"

simple_refund(caller, htlc_id) ==
    LET res == simple_refund_result(caller, htlc_id)
        htlc == simple_htlcs[htlc_id]
        msgs == IF res = "Ok" THEN <<Send(htlc.sender, htlc.amount)>> ELSE <<>>
    IN /\ IF res = "Ok"
          THEN /\ simple_htlcs' = [simple_htlcs EXCEPT ![htlc_id] =
                               [@ EXCEPT !.refunded = TRUE]]
               /\ simple_transfers' = [simple_transfers EXCEPT ![htlc_id] = @ \o msgs]
          ELSE UNCHANGED <<simple_htlcs, simple_transfers>>
       /\ last' = Call("simple_refund", htlc_id, res, msgs)
       /\ UNCHANGED <<next_id, now>>

\* FusionHTLC::new()
SimpleNew ==
    /\ simple_htlcs = <<>>
    /\ next_id = 1
    /\ simple_transfers = <<>>

(***************************************************************************)
(* NEAR FusionPlusContract (fusion_plus.rs).                               *)
(***************************************************************************)
\* Bounds on the number of HTLCs and of partial fills created in one behaviour.
MaxPlusHtlcs == 1
MaxFills == 2

PlusMinTimelock == 3600
PlusMaxTimelock == 2592000

PlusAddrs == {"alice", "bob", "carol"}
PlusTimelockInputs == {3599, 3600}
PlusDepositInputs == {0, 20}
PlusHashInputs == {"d1", "short"}
PlusSecrets == {"0a", "0b", "zz"}
PlusMinFillInputs == {None, Some(8), Some(21)}
PlusFillAmounts == {1, 8, 12}
\* The amounts attached to create_safety_deposit: amount / 20 of an HTLC of
\* 20 is 1.
PlusSafetyInputs == {0, 1}

plus_min_fill(amount, allow_partial_fills, min_fill_amount) ==
    IF allow_partial_fills
    THEN IF min_fill_amount = None THEN amount \div 10 ELSE min_fill_amount[1]
    ELSE amount

plus_create_result(amount, hashlock, timelock_seconds, allow_partial_fills, min_fill_amount) ==
    LET min == plus_min_fill(amount, allow_partial_fills, min_fill_amount)
    IN IF ~(amount > 0) THEN "Amount must be greater than 0"
       ELSE IF ~IsLen64(hashlock) THEN "Invalid hashlock"
       ELSE IF ~(timelock_seconds >= PlusMinTimelock
                 /\ timelock_seconds <= PlusMaxTimelock) THEN "Invalid timelock"
       ELSE IF allow_partial_fills /\ ~(min > 0 /\ min <= amount)
            THEN "Invalid min fill amount"
       ELSE "Ok"

\* add_user_htlc
add_user_htlc(index, user, htlc_id) ==
    [u \in DOMAIN index \cup {user} |->
        IF u = user
        THEN (IF u \in DOMAIN index THEN Append(index[u], htlc_id) ELSE <<htlc_id>>)
        ELSE index[u]]

plus_create_htlc(sender, amount, receiver, hashlock, timelock_seconds, allow_partial_fills, min_fill_amount, require_safety_deposit) ==
    LET res == plus_create_result(amount, hashlock, timelock_seconds,
                                  allow_partial_fills, min_fill_amount)
        htlc_id == plus_next_htlc_id
        htlc == [id |-> htlc_id, sender |-> sender, receiver |-> receiver,
                 token_id |-> None, total_amount |-> amount,
                 remaining_amount |-> amount, hashlock |-> hashlock,
                 timelock |-> now + timelock_seconds, secret |-> None,
                 allow_partial_fills |-> allow_partial_fills,
                 min_fill_amount |->
                     plus_min_fill(amount, allow_partial_fills, min_fill_amount),
                 safety_deposit_amount |->
                     IF require_safety_deposit THEN amount \div 20 ELSE 0,
                 status |-> "Active", created_at |-> now]
    IN /\ plus_next_htlc_id <= MaxPlusHtlcs
       /\ IF res = "Ok"
          THEN /\ plus_next_htlc_id' = plus_next_htlc_id + 1
               /\ plus_htlcs' = [i \in DOMAIN plus_htlcs \cup {htlc_id} |->
                                   IF i = htlc_id THEN htlc ELSE plus_htlcs[i]]
               /\ plus_secret_to_htlc' =
                     [h \in DOMAIN plus_secret_to_htlc \cup {hashlock} |->
                         IF h = hashlock THEN htlc_id ELSE plus_secret_to_htlc[h]]
               /\ active_htlcs' = Append(active_htlcs, htlc_id)
               /\ user_htlcs' = add_user_htlc(add_user_htlc(user_htlcs, sender, htlc_id),
                                              receiver, htlc_id)
               /\ plus_stats' = [total_volume |-> plus_stats.total_volume + amount,
                                 total_htlcs_created |->
                                     plus_stats.total_htlcs_created + 1]
               /\ partial_fills' =
                     IF allow_partial_fills
                     THEN [i \in DOMAIN partial_fills \cup {htlc_id} |->
                              IF i = htlc_id THEN <<>> ELSE partial_fills[i]]
                     ELSE partial_fills
               /\ plus_transfers' = [i \in DOMAIN plus_htlcs \cup {htlc_id} |->
                                   IF i = htlc_id THEN <<>> ELSE plus_transfers[i]]
          ELSE UNCHANGED <<plus_htlcs, plus_secret_to_htlc, active_htlcs, user_htlcs,
                           plus_stats, partial_fills, plus_next_htlc_id,
                           plus_transfers>>
       /\ last' = Call("plus_create_htlc", htlc_id, res, <<>>)
       /\ UNCHANGED <<next_fill_id, plus_safety_deposits, plus_next_deposit_id, now>>

\* verify_secret: the panic message, or "Ok".
verify_secret(secret, hashlock) ==
    IF HexDecode(secret) = None THEN "Invalid hex secret"
    ELSE IF Sha256HexOfBytes(HexDecode(secret)[1]) # hashlock THEN "Invalid secret"
    ELSE "Ok"

\* remove_from_active
remove_from_active(htlc_id) == SelectSeq(active_htlcs, LAMBDA id : id # htlc_id)

\* The require!s of FusionPlusContract::withdraw, in the order of the code.
plus_withdraw_result(withdrawer, htlc_id, secret) ==
    IF htlc_id \notin DOMAIN plus_htlcs THEN "HTLC not found"
    ELSE LET htlc == plus_htlcs[htlc_id]
         IN IF ~(htlc.status = "Active" \/ htlc.status = "PartiallyFilled")
            THEN "HTLC not active"
            ELSE IF ~(now < htlc.timelock) THEN "HTLC expired"
            ELSE IF ~(withdrawer = htlc.receiver) THEN "Not the receiver"
            ELSE IF ~(~htlc.allow_partial_fills)
                 THEN "Use withdraw_partial for partial fills"
            ELSE verify_secret(secret, htlc.hashlock)

plus_withdraw(withdrawer, htlc_id, secret) ==
    LET res == plus_withdraw_result(withdrawer, htlc_id, secret)
        htlc == plus_htlcs[htlc_id]
        msgs == IF res = "Ok" THEN <<Send(withdrawer, htlc.total_amount)>> ELSE <<>>
    IN /\ IF res = "Ok"
          THEN /\ plus_htlcs' = [plus_htlcs EXCEPT ![htlc_id] =
                                   [@ EXCEPT !.status = "Completed",
                                             !.secret = Some(secret)]]
               /\ active_htlcs' = remove_from_active(htlc_id)
               /\ plus_transfers' = [plus_transfers EXCEPT ![htlc_id] = @ \o msgs]
          ELSE UNCHANGED <<plus_htlcs, active_htlcs, plus_transfers>>
       /\ last' = Call("plus_withdraw", htlc_id, res, msgs)
       /\ UNCHANGED <<plus_secret_to_htlc, user_htlcs, plus_stats, partial_fills,
                      plus_next_htlc_id, next_fill_id, plus_safety_deposits, plus_next_deposit_id, now>>

\* The require!s of create_partial_fill, in the order of the code.
create_partial_fill_result(htlc_id, fill_amount, attached) ==
    IF htlc_id \notin DOMAIN plus_htlcs THEN "HTLC not found"
    ELSE LET htlc == plus_htlcs[htlc_id]
         IN IF ~htlc.allow_partial_fills THEN "Partial fills not allowed"
            ELSE IF ~(htlc.status = "Active" \/ htlc.status = "PartiallyFilled")
                 THEN "HTLC not active"
            ELSE IF ~(now < htlc.timelock) THEN "HTLC expired"
            ELSE IF ~(fill_amount >= htlc.min_fill_amount) THEN "Below minimum fill"
            ELSE IF ~(fill_amount <= htlc.remaining_amount)
                 THEN "Exceeds remaining amount"
            ELSE IF ~(attached >= fill_amount) THEN "Insufficient deposit"
            ELSE "Ok"

\* The excess of the attached deposit goes back to the filler; it is reported
\* in the call's transfers and is no payout of the HTLC's escrow.
create_partial_fill(filler, htlc_id, fill_amount, attached) ==
    LET res == create_partial_fill_result(htlc_id, fill_amount, attached)
        fill_id == next_fill_id
        fill == [id |-> fill_id, htlc_id |-> htlc_id, filler |-> filler,
                 amount |-> fill_amount, status |-> "Pending", created_at |-> now]
        msgs == IF res = "Ok" /\ attached > fill_amount
                THEN <<Send(filler, attached - fill_amount)>> ELSE <<>>
    IN /\ next_fill_id <= MaxFills
       /\ IF res = "Ok"
          THEN /\ next_fill_id' = next_fill_id + 1
               /\ partial_fills' = [partial_fills EXCEPT ![htlc_id] = Append(@, fill)]
               /\ plus_htlcs' = [plus_htlcs EXCEPT ![htlc_id] =
                                   [@ EXCEPT !.remaining_amount = @ - fill_amount,
                                             !.status = "PartiallyFilled"]]
          ELSE UNCHANGED <<next_fill_id, partial_fills, plus_htlcs>>
       /\ last' = Call("create_partial_fill", htlc_id, res, msgs)
       /\ UNCHANGED <<plus_secret_to_htlc, active_htlcs, user_htlcs, plus_stats,
                      plus_next_htlc_id, plus_transfers, plus_safety_deposits, plus_next_deposit_id, now>>

\* The index of the first fill with this id in fills, or 0.
fill_index(fills, fill_id) ==
    IF \E i \in 1..Len(fills) : fills[i].id = fill_id
    THEN CHOOSE i \in 1..Len(fills) :
            /\ fills[i].id = fill_id
            /\ \A j \in 1..(i - 1) : fills[j].id # fill_id
    ELSE 0

\* all_fills_completed satisfied by a single Completed fill.
all_fills_completed_some(fills_of, htlc_id) ==
    IF htlc_id \in DOMAIN fills_of
    THEN \E i \in 1..Len(fills_of[htlc_id]) : fills_of[htlc_id][i].status = "Completed"
    ELSE TRUE

\* all_fills_completed, over the stored fills of the HTLC.
all_fills_completed(fills_of, htlc_id) ==
    IF htlc_id \in DOMAIN fills_of
    THEN \A i \in 1..Len(fills_of[htlc_id]) : fills_of[htlc_id][i].status = "Completed"
    ELSE TRUE

\* The require!s and expects of withdraw_partial, in the order of the code.
withdraw_partial_result(withdrawer, htlc_id, fill_id, secret) ==
    IF htlc_id \notin DOMAIN plus_htlcs THEN "HTLC not found"
    ELSE LET htlc == plus_htlcs[htlc_id]
         IN IF ~(withdrawer = htlc.receiver) THEN "Not the receiver"
            ELSE IF ~(now < htlc.timelock) THEN "HTLC expired"
            ELSE IF verify_secret(secret, htlc.hashlock) # "Ok"
                 THEN verify_secret(secret, htlc.hashlock)
            ELSE IF htlc_id \notin DOMAIN partial_fills THEN "No fills found"
            ELSE IF fill_index(partial_fills[htlc_id], fill_id) = 0
                 THEN "Fill not found"
            ELSE IF partial_fills[htlc_id][fill_index(partial_fills[htlc_id],
                                                      fill_id)].status # "Pending"
                 THEN "Fill already processed"
            ELSE "Ok"

withdraw_partial(withdrawer, htlc_id, fill_id, secret) ==
    LET res == withdraw_partial_result(withdrawer, htlc_id, fill_id, secret)
        htlc == plus_htlcs[htlc_id]
        idx == fill_index(partial_fills[htlc_id], fill_id)
        fill == partial_fills[htlc_id][idx]
        fills == [partial_fills EXCEPT ![htlc_id][idx].status = "Completed"]
        done == htlc.remaining_amount = 0 /\ all_fills_completed(fills, htlc_id)
        msgs == IF res = "Ok" THEN <<Send(withdrawer, fill.amount)>> ELSE <<>>
    IN /\ IF res = "Ok"
          THEN /\ partial_fills' = fills
               /\ plus_htlcs' = IF done
                                THEN [plus_htlcs EXCEPT ![htlc_id] =
                                         [@ EXCEPT !.status = "Completed",
                                                   !.secret = Some(secret)]]
                                ELSE plus_htlcs
               /\ active_htlcs' = IF done THEN remove_from_active(htlc_id)
                                  ELSE active_htlcs
               /\ plus_transfers' = [plus_transfers EXCEPT ![htlc_id] = @ \o msgs]
          ELSE UNCHANGED <<partial_fills, plus_htlcs, active_htlcs, plus_transfers>>
       /\ last' = Call("withdraw_partial", htlc_id, res, msgs)
       /\ UNCHANGED <<plus_secret_to_htlc, user_htlcs, plus_stats, plus_next_htlc_id,
                      next_fill_id, plus_safety_deposits, plus_next_deposit_id, now>>

\* The require!s of FusionPlusContract::refund, in the order of the code.
plus_refund_result(refunder, htlc_id) ==
    IF htlc_id \notin DOMAIN plus_htlcs THEN "HTLC not found"
    ELSE LET htlc == plus_htlcs[htlc_id]
         IN IF ~(refunder = htlc.sender) THEN "Not the sender"
            ELSE IF ~(now >= htlc.timelock) THEN "Not expired"
            ELSE IF ~(htlc.status # "Completed" /\ htlc.status # "Refunded")
                 THEN "Already processed"
            ELSE "Ok"

plus_refund(refunder, htlc_id) ==
    LET res == plus_refund_result(refunder, htlc_id)
        htlc == plus_htlcs[htlc_id]
        refund_amount == IF htlc.allow_partial_fills THEN htlc.remaining_amount
                         ELSE htlc.total_amount
        msgs == IF res = "Ok" THEN <<Send(refunder, refund_amount)>> ELSE <<>>
    IN /\ IF res = "Ok"
          THEN /\ plus_htlcs' = [plus_htlcs EXCEPT ![htlc_id] =
                                   [@ EXCEPT !.status = "Refunded"]]
               /\ active_htlcs' = remove_from_active(htlc_id)
               /\ plus_transfers' = [plus_transfers EXCEPT ![htlc_id] = @ \o msgs]
          ELSE UNCHANGED <<plus_htlcs, active_htlcs, plus_transfers>>
       /\ last' = Call("plus_refund", htlc_id, res, msgs)
       /\ UNCHANGED <<plus_secret_to_htlc, user_htlcs, plus_stats, partial_fills,
                      plus_next_htlc_id, next_fill_id, plus_safety_deposits, plus_next_deposit_id, now>>

\* The require!s and expects of refund_partial_fill, in the order of the code.
refund_partial_fill_result(caller, htlc_id, fill_id) ==
    IF htlc_id \notin DOMAIN plus_htlcs THEN "HTLC not found"
    ELSE IF ~(now >= plus_htlcs[htlc_id].timelock) THEN "Not expired"
    ELSE IF htlc_id \notin DOMAIN partial_fills THEN "No fills found"
    ELSE LET idx == fill_index(partial_fills[htlc_id], fill_id)
         IN IF idx = 0 THEN "Fill not found"
            ELSE IF ~(partial_fills[htlc_id][idx].status = "Pending")
                 THEN "Fill already processed"
            ELSE IF ~(caller = partial_fills[htlc_id][idx].filler)
                 THEN "Not the filler"
            ELSE "Ok"

\* refund_partial_fill without the addition to remaining_amount.
refund_partial_fill_unrestored(caller, htlc_id, fill_id) ==
    LET res == refund_partial_fill_result(caller, htlc_id, fill_id)
        idx == fill_index(partial_fills[htlc_id], fill_id)
        fill == partial_fills[htlc_id][idx]
        msgs == IF res = "Ok" THEN <<Send(fill.filler, fill.amount)>> ELSE <<>>
    IN /\ IF res = "Ok"
          THEN /\ partial_fills' =
                     [partial_fills EXCEPT ![htlc_id][idx].status = "Refunded"]
               /\ plus_transfers' = [plus_transfers EXCEPT ![htlc_id] = @ \o msgs]
               /\ UNCHANGED plus_htlcs
          ELSE UNCHANGED <<partial_fills, plus_htlcs, plus_transfers>>
       /\ last' = Call("refund_partial_fill", htlc_id, res, msgs)
       /\ UNCHANGED <<plus_secret_to_htlc, active_htlcs, user_htlcs, plus_stats,
                      plus_next_htlc_id, next_fill_id, plus_safety_deposits, plus_next_deposit_id, now>>

\* refund_partial_fill: the fill becomes Refunded and its amount goes back to
\* the filler and to remaining_amount.
refund_partial_fill(caller, htlc_id, fill_id) ==
    LET res == refund_partial_fill_result(caller, htlc_id, fill_id)
        idx == fill_index(partial_fills[htlc_id], fill_id)
        fill == partial_fills[htlc_id][idx]
        msgs == IF res = "Ok" THEN <<Send(fill.filler, fill.amount)>> ELSE <<>>
    IN /\ IF res = "Ok"
          THEN /\ partial_fills' =
                     [partial_fills EXCEPT ![htlc_id][idx].status = "Refunded"]
               /\ plus_htlcs' = [plus_htlcs EXCEPT ![htlc_id] =
                                   [@ EXCEPT !.remaining_amount = @ + fill.amount]]
               /\ plus_transfers' = [plus_transfers EXCEPT ![htlc_id] = @ \o msgs]
          ELSE UNCHANGED <<partial_fills, plus_htlcs, plus_transfers>>
       /\ last' = Call("refund_partial_fill", htlc_id, res, msgs)
       /\ UNCHANGED <<plus_secret_to_htlc, active_htlcs, user_htlcs, plus_stats,
                      plus_next_htlc_id, next_fill_id, plus_safety_deposits, plus_next_deposit_id, now>>

\* The expect and the require!s of FusionPlusContract::create_safety_deposit.
plus_deposit_result(htlc_id, amount) ==
    IF htlc_id \notin DOMAIN plus_htlcs THEN "HTLC not found"
    ELSE IF ~(plus_htlcs[htlc_id].safety_deposit_amount > 0)
         THEN "Safety deposit not required"
    ELSE IF ~(amount >= plus_htlcs[htlc_id].safety_deposit_amount)
         THEN "Insufficient deposit"
    ELSE "Ok"

\* create_safety_deposit of FusionPlusContract: the attached amount is booked
\* under the next deposit id for the predecessor account.
plus_create_safety_deposit(depositor, amount, htlc_id) ==
    LET res == plus_deposit_result(htlc_id, amount)
        deposit_id == plus_next_deposit_id
        deposit == [id |-> deposit_id, htlc_id |-> htlc_id, depositor |-> depositor,
                    amount |-> amount, created_at |-> now]
    IN /\ plus_next_deposit_id <= MaxPlusDeposits
       /\ IF res = "Ok"
          THEN /\ plus_next_deposit_id' = plus_next_deposit_id + 1
               /\ plus_safety_deposits' =
                     [d \in DOMAIN plus_safety_deposits \cup {deposit_id} |->
                         IF d = deposit_id THEN deposit ELSE plus_safety_deposits[d]]
          ELSE UNCHANGED <<plus_safety_deposits, plus_next_deposit_id>>
       /\ last' = Call("plus_create_safety_deposit", deposit_id, res, <<>>)
       /\ UNCHANGED <<plus_htlcs, partial_fills, plus_secret_to_htlc, user_htlcs,
                      active_htlcs, plus_next_htlc_id, next_fill_id, plus_stats,
                      plus_transfers, now>>

\* The expect and the require! of FusionPlusContract::claim_safety_deposit.
plus_claim_result(claimer, deposit_id) ==
    IF deposit_id \notin DOMAIN plus_safety_deposits THEN "Deposit not found"
    ELSE IF claimer # plus_safety_deposits[deposit_id].depositor THEN "Not the depositor"
    ELSE "Ok"

\* claim_safety_deposit of FusionPlusContract: the deposit is removed and
\* paid back, whatever the state of its HTLC.
plus_claim_safety_deposit(claimer, deposit_id) ==
    LET res == plus_claim_result(claimer, deposit_id)
        msgs == IF res = "Ok"
                THEN <<Send(claimer, plus_safety_deposits[deposit_id].amount)>>
                ELSE <<>>
    IN /\ plus_safety_deposits' =
             IF res = "Ok"
             THEN [d \in DOMAIN plus_safety_deposits \ {deposit_id} |->
                      plus_safety_deposits[d]]
             ELSE plus_safety_deposits
       /\ last' = Call("plus_claim_safety_deposit", deposit_id, res, msgs)
       /\ UNCHANGED <<plus_htlcs, partial_fills, plus_secret_to_htlc, user_htlcs,
                      active_htlcs, plus_next_htlc_id, next_fill_id, plus_stats,
                      plus_transfers, plus_next_deposit_id, now>>

\* FusionPlusContract::new()
PlusNew ==
    /\ plus_htlcs = <<>>
    /\ partial_fills = <<>>
    /\ plus_secret_to_htlc = <<>>
    /\ user_htlcs = <<>>
    /\ active_htlcs = <<>>
    /\ plus_next_htlc_id = 1
    /\ next_fill_id = 1
    /\ plus_stats = [total_volume |-> 0, total_htlcs_created |-> 0]
    /\ plus_transfers = <<>>
    /\ plus_safety_deposits = <<>>
    /\ plus_next_deposit_id = 1

(***************************************************************************)
(* Stellar fusion-htlc (contracts/fusion-htlc/src/lib.rs)                  *)
(***************************************************************************)
\* Bounds: HTLCs created in one behaviour, and the last ledger time explored.
MaxFusionHtlcs == 1
MaxLedgerTime == 11

FusionAddrs == {"alice", "bob", "carol", "dave", "erin", "frank"}
FusionLedgerTimes == 0..MaxLedgerTime
\* Ledger times at which create_fusion_htlc is submitted.
FusionCreateTimes == {0, 1}
FusionSecrets == {"k1", "k2"}
FusionAmountInputs == {0, 10000}
FusionFeeInputs == {None, Some(20000)}
FusionAllowedInputs == {<<>>, <<"dave">>}

Durations(f, t, p, u, c) ==
    [finality_delay |-> f, taker_exclusive_duration |-> t,
     private_resolver_duration |-> p, public_resolver_duration |-> u,
     private_cancellation_duration |-> c]

\* StageDurations offered to create_fusion_htlc: every stage two seconds long,
\* each stage in turn empty, a total below min_timelock and one above max_timelock.
FusionDurationInputs ==
    {Durations(2, 2, 2, 2, 2), Durations(0, 2, 2, 2, 2), Durations(2, 0, 2, 2, 2),
     Durations(2, 2, 0, 2, 2), Durations(2, 2, 2, 0, 2), Durations(2, 2, 2, 2, 0),
     Durations(0, 0, 0, 0, 0), Durations(2, 2, 2, 2, 4)}

\* The arguments of initialize.
FusionInitialize ==
    [admin |-> "admin", default_resolver_fee_bps |-> 50,
     min_timelock |-> 2, max_timelock |-> 10]

\* env.crypto().keccak256(secret): a BytesN<32> digest.
Keccak256(secret) ==
    CASE secret = "k1" -> "h1"
      [] secret = "k2" -> "h2"
      [] OTHER -> "h0"

Contains(vec, a) == \E i \in 1..Len(vec) : vec[i] = a

fusion_create_result(amount, stage_durations) ==
    LET total_duration == stage_durations.finality_delay
                          + stage_durations.taker_exclusive_duration
                          + stage_durations.private_resolver_duration
                          + stage_durations.public_resolver_duration
                          + stage_durations.private_cancellation_duration
    IN IF Paused THEN "Contract is paused"
       ELSE IF ~(amount > 0) THEN "Amount must be positive"
       ELSE IF ~(total_duration >= FusionInitialize.min_timelock)
            THEN "Total duration too short"
       ELSE IF ~(total_duration <= FusionInitialize.max_timelock)
            THEN "Total duration too long"
       ELSE "Ok"

create_fusion_htlc(sender, receiver, amount, hashlock, taker_address, allowed_resolvers, stage_durations, resolver_fee_bps) ==
    LET res == fusion_create_result(amount, stage_durations)
        finality_time == now + stage_durations.finality_delay
        taker_deadline == finality_time + stage_durations.taker_exclusive_duration
        public_deadline == taker_deadline + stage_durations.private_resolver_duration
        cancellation_start == public_deadline + stage_durations.public_resolver_duration
        cancellation_public ==
            cancellation_start + stage_durations.private_cancellation_duration
        counter == HTLCCounter + 1
        fee_bps == IF resolver_fee_bps = None
                   THEN FusionInitialize.default_resolver_fee_bps
                   ELSE resolver_fee_bps[1]
        htlc == [id |-> counter, sender |-> sender, receiver |-> receiver,
                 amount |-> amount, hashlock |-> hashlock, secret |-> None,
                 status |-> "Pending",
                 finality_time |-> finality_time, taker_deadline |-> taker_deadline,
                 public_deadline |-> public_deadline,
                 cancellation_start |-> cancellation_start,
                 cancellation_public |-> cancellation_public,
                 allowed_resolvers |-> allowed_resolvers,
                 taker_address |-> taker_address, resolver_fee_bps |-> fee_bps,
                 withdrawn_by |-> None, cancelled_by |-> None]
    IN /\ HTLCCounter < MaxFusionHtlcs
       /\ IF res = "Ok"
          THEN /\ HTLCCounter' = counter
               /\ HTLC' = [i \in DOMAIN HTLC \cup {counter} |->
                              IF i = counter THEN htlc ELSE HTLC[i]]
               /\ token_transfers' = [i \in DOMAIN HTLC \cup {counter} |->
                              IF i = counter THEN <<>> ELSE token_transfers[i]]
          ELSE UNCHANGED <<HTLC, HTLCCounter, token_transfers>>
       /\ last' = Call("create_fusion_htlc", counter, res, <<>>)
       /\ UNCHANGED <<ResolverConfigs, GlobalResolvers, Paused, now>>

\* update_htlc_status with the finality boundary taken inclusively.
update_htlc_status_inclusive(current_time, htlc) ==
    IF htlc.status = "Completed" \/ htlc.status = "Cancelled" THEN htlc
    ELSE IF current_time <= htlc.finality_time THEN [htlc EXCEPT !.status = "Pending"]
    ELSE IF current_time < htlc.taker_deadline
         THEN [htlc EXCEPT !.status = "TakerSettlement"]
    ELSE IF current_time < htlc.public_deadline
         THEN [htlc EXCEPT !.status = "PrivateSettlement"]
    ELSE IF current_time < htlc.cancellation_start
         THEN [htlc EXCEPT !.status = "PublicSettlement"]
    ELSE IF current_time < htlc.cancellation_public
         THEN [htlc EXCEPT !.status = "PrivateCancellation"]
    ELSE [htlc EXCEPT !.status = "PublicCancellation"]

\* update_htlc_status: the status of htlc at ledger time current_time.
update_htlc_status(current_time, htlc) ==
    IF htlc.status = "Completed" \/ htlc.status = "Cancelled" THEN htlc
    ELSE IF current_time < htlc.finality_time THEN [htlc EXCEPT !.status = "Pending"]
    ELSE IF current_time < htlc.taker_deadline
         THEN [htlc EXCEPT !.status = "TakerSettlement"]
    ELSE IF current_time < htlc.public_deadline
         THEN [htlc EXCEPT !.status = "PrivateSettlement"]
    ELSE IF current_time < htlc.cancellation_start
         THEN [htlc EXCEPT !.status = "PublicSettlement"]
    ELSE IF current_time < htlc.cancellation_public
         THEN [htlc EXCEPT !.status = "PrivateCancellation"]
    ELSE [htlc EXCEPT !.status = "PublicCancellation"]

is_global_resolver(address) ==
    IF address \in DOMAIN ResolverConfigs
    THEN ResolverConfigs[address].enabled
    ELSE FALSE

\* The match on htlc.status in withdraw, with the taker stage open to everyone.
can_withdraw_any_taker_stage(htlc, withdrawer) ==
    CASE htlc.status = "Pending" -> FALSE
      [] htlc.status = "TakerSettlement" -> TRUE
      [] htlc.status = "PrivateSettlement" ->
            \/ withdrawer = htlc.taker_address
            \/ Contains(htlc.allowed_resolvers, withdrawer)
            \/ is_global_resolver(withdrawer)
      [] htlc.status = "PublicSettlement" -> TRUE
      [] OTHER -> FALSE

\* The match on htlc.status in withdraw.
can_withdraw(htlc, withdrawer) ==
    CASE htlc.status = "Pending" -> FALSE
      [] htlc.status = "TakerSettlement" -> withdrawer = htlc.taker_address
      [] htlc.status = "PrivateSettlement" ->
            \/ withdrawer = htlc.taker_address
            \/ Contains(htlc.allowed_resolvers, withdrawer)
            \/ is_global_resolver(withdrawer)
      [] htlc.status = "PublicSettlement" -> TRUE
      [] OTHER -> FALSE

resolver_fee(htlc, withdrawer) ==
    IF withdrawer # htlc.receiver
    THEN (htlc.amount * htlc.resolver_fee_bps) \div 10000
    ELSE 0

\* The checks of withdraw, in the order of the code.  The contract holds
\* htlc.amount for an open HTLC; the payout to the receiver is the first
\* transfer, and the fee left after it always covers the second.
fusion_withdraw_result(htlc_id, withdrawer, secret) ==
    IF htlc_id \notin DOMAIN HTLC THEN "HTLC not found"
    ELSE LET htlc == update_htlc_status(now, HTLC[htlc_id])
         IN IF ~(htlc.status # "Completed") THEN "Already withdrawn"
            ELSE IF ~(htlc.status # "Cancelled") THEN "Already cancelled"
            ELSE IF ~(Keccak256(secret) = htlc.hashlock) THEN "Invalid secret"
            ELSE IF ~can_withdraw(htlc, withdrawer)
                 THEN "Not authorized to withdraw at this stage"
            ELSE IF ~token_accepts(htlc.amount,
                                   htlc.amount - resolver_fee(htlc, withdrawer))
                 THEN "token: transfer refused"
            ELSE "Ok"

fusion_withdraw(htlc_id, withdrawer, secret) ==
    LET res == fusion_withdraw_result(htlc_id, withdrawer, secret)
        htlc == update_htlc_status(now, HTLC[htlc_id])
        fee == resolver_fee(htlc, withdrawer)
        receiver_amount == htlc.amount - fee
        msgs == IF res # "Ok" THEN <<>>
                ELSE IF fee > 0
                     THEN <<Send(htlc.receiver, receiver_amount), Send(withdrawer, fee)>>
                     ELSE <<Send(htlc.receiver, receiver_amount)>>
    IN /\ IF res = "Ok"
          THEN /\ HTLC' = [HTLC EXCEPT ![htlc_id] =
                              [htlc EXCEPT !.status = "Completed",
                                           !.secret = Some(secret),
                                           !.withdrawn_by = Some(withdrawer)]]
               /\ token_transfers' = [token_transfers EXCEPT ![htlc_id] = @ \o msgs]
          ELSE UNCHANGED <<HTLC, token_transfers>>
       /\ last' = Call("fusion_withdraw", htlc_id, res, msgs)
       /\ UNCHANGED <<HTLCCounter, ResolverConfigs, GlobalResolvers, Paused, now>>

\* The match on htlc.status in cancel, with the private stage open to everyone.
can_cancel_any_private_stage(htlc, canceller) ==
    CASE htlc.status = "PrivateCancellation" -> TRUE
      [] htlc.status = "PublicCancellation" -> TRUE
      [] OTHER -> FALSE

\* The match on htlc.status in cancel, with the public stage kept to the parties.
can_cancel_parties_only(htlc, canceller) ==
    CASE htlc.status = "PrivateCancellation" ->
            \/ canceller = htlc.sender
            \/ Contains(htlc.allowed_resolvers, canceller)
            \/ is_global_resolver(canceller)
      [] htlc.status = "PublicCancellation" -> canceller = htlc.sender
      [] OTHER -> FALSE

\* The match on htlc.status in cancel.
can_cancel(htlc, canceller) ==
    CASE htlc.status = "PrivateCancellation" ->
            \/ canceller = htlc.sender
            \/ Contains(htlc.allowed_resolvers, canceller)
            \/ is_global_resolver(canceller)
      [] htlc.status = "PublicCancellation" -> TRUE
      [] OTHER -> FALSE

\* The checks of cancel, in the order of the code.
fusion_cancel_result(htlc_id, canceller) ==
    IF htlc_id \notin DOMAIN HTLC THEN "HTLC not found"
    ELSE LET htlc == update_htlc_status(now, HTLC[htlc_id])
         IN IF ~(htlc.status # "Completed") THEN "Already withdrawn"
            ELSE IF ~(htlc.status # "Cancelled") THEN "Already cancelled"
            ELSE IF ~can_cancel(htlc, canceller)
                 THEN "Not authorized to cancel at this stage"
            ELSE "Ok"

fusion_cancel(htlc_id, canceller) ==
    LET res == fusion_cancel_result(htlc_id, canceller)
        htlc == update_htlc_status(now, HTLC[htlc_id])
        msgs == IF res = "Ok" THEN <<Send(htlc.sender, htlc.amount)>> ELSE <<>>
    IN /\ IF res = "Ok"
          THEN /\ HTLC' = [HTLC EXCEPT ![htlc_id] =
                              [htlc EXCEPT !.status = "Cancelled",
                                           !.cancelled_by = Some(canceller)]]
               /\ token_transfers' = [token_transfers EXCEPT ![htlc_id] = @ \o msgs]
          ELSE UNCHANGED <<HTLC, token_transfers>>
       /\ last' = Call("fusion_cancel", htlc_id, res, msgs)
       /\ UNCHANGED <<HTLCCounter, ResolverConfigs, GlobalResolvers, Paused, now>>

\* add_global_resolver, authorised by the admin.
add_global_resolver(resolver, priority, fee_discount_bps) ==
    /\ ResolverConfigs' =
          [a \in DOMAIN ResolverConfigs \cup {resolver} |->
              IF a = resolver
              THEN [address |-> resolver, priority |-> priority,
                    fee_discount_bps |-> fee_discount_bps, enabled |-> TRUE]
              ELSE ResolverConfigs[a]]
    /\ GlobalResolvers' = IF Contains(GlobalResolvers, resolver)
                          THEN GlobalResolvers
                          ELSE Append(GlobalResolvers, resolver)
    /\ last' = Call("add_global_resolver", 0, "Ok", <<>>)
    /\ UNCHANGED <<HTLC, HTLCCounter, Paused, token_transfers, now>>

\* set_paused, authorised by the admin.
set_paused(paused) ==
    /\ Paused' = paused
    /\ last' = Call("set_paused", 0, "Ok", <<>>)
    /\ UNCHANGED <<HTLC, HTLCCounter, ResolverConfigs, GlobalResolvers,
                   token_transfers, now>>

\* get_htlc: refreshes the status and stores it.
fusion_get_htlc(htlc_id) ==
    /\ IF htlc_id \in DOMAIN HTLC
       THEN /\ HTLC' = [HTLC EXCEPT ![htlc_id] = update_htlc_status(now, @)]
            /\ last' = Call("get_htlc", htlc_id, "Ok", <<>>)
       ELSE /\ UNCHANGED HTLC
            /\ last' = Call("get_htlc", htlc_id, "HTLC not found", <<>>)
    /\ UNCHANGED <<HTLCCounter, ResolverConfigs, GlobalResolvers, Paused, token_transfers, now>>

\* The contract's storage after initialize.
FusionNew ==
    /\ HTLC = <<>>
    /\ HTLCCounter = 0
    /\ ResolverConfigs = <<>>
    /\ GlobalResolvers = <<>>
    /\ Paused = FALSE
    /\ token_transfers = <<>>

(***************************************************************************)
(* Stellar relayer-contract (relayer-contract/src/lib.rs).  The token is a *)
(* Soroban token contract: transfer panics, and with it the whole call,    *)
(* when the amount is negative or exceeds the balance of the payer.        *)
(***************************************************************************)
\* Bound on the number of orders created in one behaviour.
MaxRelayerOrders == 2
\* The safety deposits that the contract holds never exceed this.
MaxRelayerBalance == 2000000
\* Bound on the calls of initialize after the deployment's.
MaxRelayerInits == 1

RelayerLedgerTimes == {0, 3600, 3601, 3602}
RelayerTimelockInputs == {3600, 3601}
RelayerAmountInputs == {0, 5000}
RelayerDepositInputs == {999999, 1000000}
RelayerSecrets == {"k1", "k2"}
\* The admin of the deployment and an account that initializes again.
RelayerAdmins == {"admin", "mallory"}

\* The instance storage that initialize writes.
RelayerInitialize == [MinSafetyDeposit |-> 1000000, RelayerFeeRate |-> 50]

relayer_create_result(amount, timelock, safety_deposit) ==
    IF ~(amount > 0) THEN "Amount must be positive"
    ELSE IF ~(timelock > now + 3600) THEN "Timelock must be at least 1 hour"
    ELSE IF ~(safety_deposit >= RelayerInitialize.MinSafetyDeposit)
         THEN "Safety deposit too low"
    ELSE "Ok"

\* create_order; the initiator holds the safety deposit it pays in.
create_order(initiator, amount, hashlock, timelock, safety_deposit) ==
    LET res == relayer_create_result(amount, timelock, safety_deposit)
        counter == OrderCounter + 1
        order == [id |-> counter, initiator |-> initiator, amount |-> amount,
                  hashlock |-> hashlock, timelock |-> timelock,
                  relayer_fee |-> (amount * RelayerInitialize.RelayerFeeRate) \div 10000,
                  safety_deposit |-> safety_deposit, status |-> "Active",
                  created_at |-> now]
    IN /\ OrderCounter < MaxRelayerOrders
       /\ (res = "Ok") => relayer_balance + safety_deposit <= MaxRelayerBalance
       /\ IF res = "Ok"
          THEN /\ OrderCounter' = counter
               /\ relayer_balance' = relayer_balance + safety_deposit
               /\ Order' = [i \in DOMAIN Order \cup {counter} |->
                               IF i = counter THEN order ELSE Order[i]]
               /\ deposit_transfers' = [i \in DOMAIN Order \cup {counter} |->
                               IF i = counter THEN <<>> ELSE deposit_transfers[i]]
          ELSE UNCHANGED <<OrderCounter, relayer_balance, Order, deposit_transfers>>
       /\ last' = Call("create_order", counter, res, <<>>)
       /\ UNCHANGED <<relayer_Admin, relayer_RelayerAuth, relayer_inits, now>>

\* The expects and asserts of complete_order, in the order of the code.
complete_order_result(order_id, secret) ==
    IF order_id \notin DOMAIN Order THEN "Order not found"
    ELSE IF ~(Keccak256(secret) = Order[order_id].hashlock) THEN "Invalid secret"
    ELSE IF Order[order_id].safety_deposit > 0
            /\ ~token_accepts(relayer_balance, Order[order_id].safety_deposit)
         THEN "token: transfer refused"
    ELSE "Ok"

complete_order(order_id, secret) ==
    LET res == complete_order_result(order_id, secret)
        order == Order[order_id]
        msgs == IF res = "Ok" /\ order.safety_deposit > 0
                THEN <<Send(order.initiator, order.safety_deposit)>> ELSE <<>>
    IN /\ IF res = "Ok"
          THEN /\ Order' = [Order EXCEPT ![order_id] = [@ EXCEPT !.status = "Completed"]]
               /\ relayer_balance' = IF order.safety_deposit > 0
                                     THEN relayer_balance - order.safety_deposit
                                     ELSE relayer_balance
               /\ deposit_transfers' = [deposit_transfers EXCEPT ![order_id] = @ \o msgs]
          ELSE UNCHANGED <<Order, relayer_balance, deposit_transfers>>
       /\ last' = Call("complete_order", order_id, res, msgs)
       /\ UNCHANGED <<OrderCounter, relayer_Admin, relayer_RelayerAuth, relayer_inits, now>>

\* The expects and asserts of cancel_order, in the order of the code; the
\* initiator authorises the call.
cancel_order_result(order_id) ==
    IF order_id \notin DOMAIN Order THEN "Order not found"
    ELSE IF ~(now >= Order[order_id].timelock) THEN "Order not expired"
    ELSE IF ~(Order[order_id].status # "Cancelled") THEN "Already cancelled"
    ELSE IF Order[order_id].safety_deposit > 0
            /\ ~token_accepts(relayer_balance, Order[order_id].safety_deposit)
         THEN "token: transfer refused"
    ELSE "Ok"

cancel_order(order_id) ==
    LET res == cancel_order_result(order_id)
        order == Order[order_id]
        msgs == IF res = "Ok" /\ order.safety_deposit > 0
                THEN <<Send(order.initiator, order.safety_deposit)>> ELSE <<>>
    IN /\ IF res = "Ok"
          THEN /\ Order' = [Order EXCEPT ![order_id] = [@ EXCEPT !.status = "Cancelled"]]
               /\ relayer_balance' = IF order.safety_deposit > 0
                                     THEN relayer_balance - order.safety_deposit
                                     ELSE relayer_balance
               /\ deposit_transfers' = [deposit_transfers EXCEPT ![order_id] = @ \o msgs]
          ELSE UNCHANGED <<Order, relayer_balance, deposit_transfers>>
       /\ last' = Call("cancel_order", order_id, res, msgs)
       /\ UNCHANGED <<OrderCounter, relayer_Admin, relayer_RelayerAuth, relayer_inits, now>>

\* initialize, authorised by the admin it names.  Nothing tells a first call
\* from a later one: the counter goes back to 0 and the stored orders stay.
relayer_initialize(admin) ==
    /\ relayer_inits < MaxRelayerInits
    /\ relayer_inits' = relayer_inits + 1
    /\ relayer_Admin' = admin
    /\ OrderCounter' = 0
    /\ last' = Call("initialize", 0, "Ok", <<>>)
    /\ UNCHANGED <<Order, relayer_balance, deposit_transfers, relayer_RelayerAuth, now>>

\* authorize_relayer of the relayer-contract: signer authorises the call, the
\* stored admin has to.
relayer_authorize_relayer(signer, relayer) ==
    LET res == IF signer # relayer_Admin THEN "require_auth failed" ELSE "Ok"
    IN /\ relayer_RelayerAuth' = IF res = "Ok" THEN relayer_RelayerAuth \cup {relayer}
                                 ELSE relayer_RelayerAuth
       /\ last' = Call("relayer_authorize_relayer", 0, res, <<>>)
       /\ UNCHANGED <<Order, OrderCounter, relayer_balance, deposit_transfers,
                      relayer_Admin, relayer_inits, now>>

\* The contract's storage and token balance after initialize.
RelayerNew ==
    /\ Order = <<>>
    /\ OrderCounter = 0
    /\ relayer_balance = 0
    /\ deposit_transfers = <<>>
    /\ relayer_Admin = "admin"
    /\ relayer_RelayerAuth = {}
    /\ relayer_inits = 0

(***************************************************************************)
(* stellar-integration/src/fusion_relayer.rs (FusionRelayer)               *)
(***************************************************************************)
\* At most this many orders are created in one behaviour.
MaxFrOrders == 1
\* The balance of the orders' token that the contract is given never exceeds
\* this.
MaxFrBalance == 1000000

FrAddrs == {"alice", "rita", "rob"}
FrLedgerTimes == {0, 3601, 3602}
FrLedgerSequences == {50}
FrTimelockInputs == {3600, 3602}
FrAmountInputs == {0, 10}
FrMinFillInputs == {0, 3, 11}
FrFillAmounts == {2, 3, 7, 10}
FrDepositInputs == {999999, 1000000}
FrSecrets == {"k1", "k2"}
\* The admin of the deployment and an account that initializes again.
FrAdmins == {"admin", "mallory"}

\* The instance storage that initialize_relayer writes.
FrInitialize == [MinSafetyDeposit |-> 1000000, RelayerFeeRate |-> 50]

\* The asserts of create_order, in the order of the code.
fr_create_result(amount, min_fill_amount, timelock, safety_deposit) ==
    IF ~(amount > 0) THEN "Amount must be positive"
    ELSE IF ~(min_fill_amount > 0 /\ min_fill_amount <= amount)
         THEN "Invalid min fill amount"
    ELSE IF ~(timelock > now + 3600) THEN "Timelock must be at least 1 hour"
    ELSE IF ~(safety_deposit >= FrInitialize.MinSafetyDeposit)
         THEN "Safety deposit too low"
    ELSE "Ok"

\* create_order: no token moves, the safety deposit is only validated.
fr_create_order(initiator, amount, min_fill_amount, hashlock, timelock, safety_deposit) ==
    LET res == fr_create_result(amount, min_fill_amount, timelock, safety_deposit)
        counter == fr_OrderCounter + 1
        order == [id |-> counter, initiator |-> initiator,
                  total_amount |-> amount, filled_amount |-> 0,
                  remaining_amount |-> amount, min_fill_amount |-> min_fill_amount,
                  hashlock |-> hashlock, timelock |-> timelock,
                  relayer_fee |-> (amount * FrInitialize.RelayerFeeRate) \div 10000,
                  safety_deposit |-> safety_deposit, status |-> "Active",
                  created_at |-> now, htlc_ids |-> <<>>]
    IN /\ fr_OrderCounter < MaxFrOrders
       /\ IF res = "Ok"
          THEN /\ fr_OrderCounter' = counter
               /\ fr_Order' = [i \in DOMAIN fr_Order \cup {counter} |->
                                  IF i = counter THEN order ELSE fr_Order[i]]
               /\ fr_transfers' = [i \in DOMAIN fr_Order \cup {counter} |->
                                  IF i = counter THEN <<>> ELSE fr_transfers[i]]
          ELSE UNCHANGED <<fr_OrderCounter, fr_Order, fr_transfers>>
       /\ last' = Call("fr_create_order", counter, res, <<>>)
       /\ UNCHANGED <<fr_RelayerAuth, fr_balance, stellar_Admin, now>>

\* authorize_relayer: signer authorises the call, the stored admin has to.
authorize_relayer(signer, relayer) ==
    LET res == IF signer # stellar_Admin THEN "require_auth failed" ELSE "Ok"
    IN /\ fr_RelayerAuth' = IF res = "Ok" THEN fr_RelayerAuth \cup {relayer}
                            ELSE fr_RelayerAuth
       /\ last' = Call("authorize_relayer", 0, res, <<>>)
       /\ UNCHANGED <<fr_Order, fr_OrderCounter, fr_balance, fr_transfers, stellar_Admin, now>>

\* initialize_relayer, authorised by the admin it names.  Nothing tells a
\* first call from a later one: the counter goes back to 0 and the stored
\* orders and authorisations stay.
initialize_relayer(admin) ==
    /\ stellar_Admin' = admin
    /\ fr_OrderCounter' = 0
    /\ last' = Call("initialize_relayer", 0, "Ok", <<>>)
    /\ UNCHANGED <<fr_Order, fr_RelayerAuth, fr_balance, fr_transfers, now>>

\* The checks of fill_order, in the order of the code; an unknown order makes
\* the call return 0 without a panic.
fill_order_result(order_id, relayer, fill_amount) ==
    IF relayer \notin fr_RelayerAuth THEN "Relayer not authorized"
    ELSE IF order_id \notin DOMAIN fr_Order THEN "returned: order not found"
    ELSE LET order == fr_Order[order_id]
         IN IF ~(order.status = "Active" \/ order.status = "PartiallyFilled")
            THEN "Order not fillable"
            ELSE IF ~(now < order.timelock) THEN "Order expired"
            ELSE IF ~(fill_amount >= order.min_fill_amount) THEN "Fill amount too small"
            ELSE IF ~(fill_amount <= order.remaining_amount)
                 THEN "Fill amount exceeds remaining"
            ELSE IF ~(fill_amount > 0) THEN "Fill amount validation passed"
            ELSE "Ok"

\* fill_order without the addition to filled_amount.
fill_order_uncounted(order_id, relayer, fill_amount, ledger_sequence) ==
    LET res == fill_order_result(order_id, relayer, fill_amount)
        order == fr_Order[order_id]
        htlc_id == ledger_sequence + order.id
        remaining == order.remaining_amount - fill_amount
    IN /\ IF res = "Ok"
          THEN fr_Order' = [fr_Order EXCEPT ![order_id] =
                  [@ EXCEPT !.remaining_amount = remaining,
                            !.htlc_ids = Append(@, htlc_id),
                            !.status = IF remaining = 0 THEN "Completed"
                                       ELSE "PartiallyFilled"]]
          ELSE UNCHANGED fr_Order
       /\ last' = Call("fill_order", order_id, res, <<>>)
       /\ UNCHANGED <<fr_OrderCounter, fr_RelayerAuth, fr_balance, fr_transfers, stellar_Admin, now>>

\* fill_order: the order's ledger and status after an accepted fill.
fill_order(order_id, relayer, fill_amount, ledger_sequence) ==
    LET res == fill_order_result(order_id, relayer, fill_amount)
        order == fr_Order[order_id]
        htlc_id == ledger_sequence + order.id
        remaining == order.remaining_amount - fill_amount
    IN /\ IF res = "Ok"
          THEN fr_Order' = [fr_Order EXCEPT ![order_id] =
                  [@ EXCEPT !.filled_amount = @ + fill_amount,
                            !.remaining_amount = remaining,
                            !.htlc_ids = Append(@, htlc_id),
                            !.status = IF remaining = 0 THEN "Completed"
                                       ELSE "PartiallyFilled"]]
          ELSE UNCHANGED fr_Order
       /\ last' = Call("fill_order", order_id, res, <<>>)
       /\ UNCHANGED <<fr_OrderCounter, fr_RelayerAuth, fr_balance, fr_transfers, stellar_Admin, now>>

\* The checks of complete_order; an unknown order makes the call return.
fr_complete_result(order_id, secret) ==
    IF order_id \notin DOMAIN fr_Order THEN "returned: order not found"
    ELSE IF ~(Keccak256(secret) = fr_Order[order_id].hashlock) THEN "Invalid secret"
    ELSE "Ok"

\* complete_order: verifies the secret and publishes an event; it writes no
\* storage and moves no token.
fr_complete_order(order_id, secret) ==
    /\ last' = Call("fr_complete_order", order_id, fr_complete_result(order_id, secret), <<>>)
    /\ UNCHANGED <<fr_Order, fr_OrderCounter, fr_RelayerAuth, fr_balance, fr_transfers, stellar_Admin, now>>

\* The checks of cancel_order, in the order of the code.
fr_cancel_result(order_id) ==
    IF order_id \notin DOMAIN fr_Order THEN "returned: order not found"
    ELSE LET order == fr_Order[order_id]
         IN IF ~(now >= order.timelock) THEN "Order not expired"
            ELSE IF ~(order.status # "Cancelled") THEN "Already cancelled"
            ELSE IF order.safety_deposit > 0
                    /\ ~token_accepts(fr_balance, order.safety_deposit)
                 THEN "token: transfer refused"
            ELSE "Ok"

\* cancel_order, authorised by the order's initiator.
fr_cancel_order(order_id) ==
    LET res == fr_cancel_result(order_id)
        order == fr_Order[order_id]
        msgs == IF res = "Ok" /\ order.safety_deposit > 0
                THEN <<Send(order.initiator, order.safety_deposit)>> ELSE <<>>
    IN /\ IF res = "Ok"
          THEN /\ fr_Order' = [fr_Order EXCEPT ![order_id].status = "Cancelled"]
               /\ fr_balance' = IF order.safety_deposit > 0
                                THEN fr_balance - order.safety_deposit
                                ELSE fr_balance
               /\ fr_transfers' = [fr_transfers EXCEPT ![order_id] = @ \o msgs]
          ELSE UNCHANGED <<fr_Order, fr_balance, fr_transfers>>
       /\ last' = Call("fr_cancel_order", order_id, res, msgs)
       /\ UNCHANGED <<fr_OrderCounter, fr_RelayerAuth, stellar_Admin, now>>

\* A transfer of the orders' token to the contract's address by any holder:
\* create_order takes no deposit in, so the contract holds only what it is sent.
fr_token_deposit(amount) ==
    /\ fr_balance + amount <= MaxFrBalance
    /\ fr_balance' = fr_balance + amount
    /\ last' = Call("token_transfer_in", 0, "Ok", <<>>)
    /\ UNCHANGED <<fr_Order, fr_OrderCounter, fr_RelayerAuth, fr_transfers, stellar_Admin, now>>

\* The contract's storage after initialize_relayer.
FrNew ==
    /\ fr_Order = <<>>
    /\ fr_OrderCounter = 0
    /\ fr_RelayerAuth = {}
    /\ fr_balance = 0
    /\ fr_transfers = <<>>
    /\ stellar_Admin = "admin"

(***************************************************************************)
(* NEAR FusionHTLCPartialContract (fusion_htlc_partial.rs).  HTLC ids      *)
(* "htlc_n" and fill ids "fill_n" are kept as the number n.  No function   *)
(* of the contract writes safety_deposits or next_deposit_id.              *)
(***************************************************************************)
\* Bounds on the number of HTLCs and of fills created in one behaviour.
MaxPfHtlcs == 1
MaxPfFills == 2

PfAddrs == {"alice", "bob", "carol"}
PfFillers == {"carol", "dave"}
PfBlockTimes == {0, 3599, 3600}
PfTimelockInputs == {3599, 3600}
PfDepositInputs == {0, 20}
PfHashInputs == {"d1", "short"}
PfSecrets == {"0a", "0b", "zz"}
PfMinFillInputs == {0, 8, 21}
PfFillAmounts == {1, 8, 12}

\* The require!s of create_htlc_partial, in the order of the code.
pf_create_result(amount, hashlock, timelock_seconds, allow_partial_fills, min_fill_amount) ==
    IF ~(amount > 0) THEN "Amount must be greater than 0"
    ELSE IF ~IsLen64(hashlock) THEN "Invalid hashlock length"
    ELSE IF ~(timelock_seconds >= 3600 /\ timelock_seconds <= 2592000)
         THEN "Timelock must be between 1 hour and 30 days"
    ELSE IF allow_partial_fills /\ ~(min_fill_amount > 0 /\ min_fill_amount <= amount)
         THEN "Invalid minimum fill amount"
    ELSE "Ok"

create_htlc_partial(sender, amount, receiver, hashlock, timelock_seconds, allow_partial_fills, min_fill_amount) ==
    LET res == pf_create_result(amount, hashlock, timelock_seconds,
                                allow_partial_fills, min_fill_amount)
        htlc_id == pf_next_htlc_id
        htlc == [id |-> htlc_id, sender |-> sender, receiver |-> receiver,
                 token_id |-> None, total_amount |-> amount,
                 remaining_amount |-> amount,
                 min_fill_amount |->
                     IF allow_partial_fills THEN min_fill_amount ELSE amount,
                 hashlock |-> hashlock, timelock |-> now + timelock_seconds,
                 allow_partial_fills |-> allow_partial_fills, fills |-> <<>>,
                 withdrawn |-> FALSE, refunded |-> FALSE, created_at |-> now]
    IN /\ pf_next_htlc_id <= MaxPfHtlcs
       /\ IF res = "Ok"
          THEN /\ pf_next_htlc_id' = pf_next_htlc_id + 1
               /\ pf_htlcs' = [i \in DOMAIN pf_htlcs \cup {htlc_id} |->
                                  IF i = htlc_id THEN htlc ELSE pf_htlcs[i]]
               /\ pf_secret_to_htlc' =
                     [h \in DOMAIN pf_secret_to_htlc \cup {hashlock} |->
                         IF h = hashlock THEN htlc_id ELSE pf_secret_to_htlc[h]]
               /\ pf_transfers' = [i \in DOMAIN pf_htlcs \cup {htlc_id} |->
                                  IF i = htlc_id THEN <<>> ELSE pf_transfers[i]]
          ELSE UNCHANGED <<pf_htlcs, pf_secret_to_htlc, pf_next_htlc_id, pf_transfers>>
       /\ last' = Call("create_htlc_partial", htlc_id, res, <<>>)
       /\ UNCHANGED <<pf_partial_fills, pf_filler_to_htlc, pf_vector_f,
                      pf_next_fill_id, now>>

\* create_partial_fill's checks without the one against min_fill_amount.
pf_create_fill_result_no_minimum(htlc_id, fill_amount, attached) ==
    IF htlc_id \notin DOMAIN pf_htlcs THEN "HTLC not found"
    ELSE LET htlc == pf_htlcs[htlc_id]
         IN IF ~htlc.allow_partial_fills THEN "Partial fills not allowed"
            ELSE IF htlc.withdrawn THEN "HTLC already withdrawn"
            ELSE IF htlc.refunded THEN "HTLC already refunded"
            ELSE IF ~(now < htlc.timelock) THEN "HTLC expired"
            ELSE IF ~(fill_amount <= htlc.remaining_amount)
                 THEN "Fill amount exceeds remaining"
            ELSE IF ~(attached >= fill_amount) THEN "Insufficient deposit"
            ELSE "Ok"

\* The expect and the require!s of FusionHTLCPartialContract::create_partial_fill,
\* in the order of the code.
pf_create_fill_result(htlc_id, fill_amount, attached) ==
    IF htlc_id \notin DOMAIN pf_htlcs THEN "HTLC not found"
    ELSE LET htlc == pf_htlcs[htlc_id]
         IN IF ~htlc.allow_partial_fills THEN "Partial fills not allowed"
            ELSE IF htlc.withdrawn THEN "HTLC already withdrawn"
            ELSE IF htlc.refunded THEN "HTLC already refunded"
            ELSE IF ~(now < htlc.timelock) THEN "HTLC expired"
            ELSE IF ~(fill_amount >= htlc.min_fill_amount)
                 THEN "Fill amount below minimum"
            ELSE IF ~(fill_amount <= htlc.remaining_amount)
                 THEN "Fill amount exceeds remaining"
            ELSE IF ~(attached >= fill_amount) THEN "Insufficient deposit"
            ELSE "Ok"

\* Vector::push on the filler's Vector: every Vector of filler_to_htlc is made
\* by Vector::new(b"f"), so all of them keep their elements under the one
\* storage prefix "f"; the map holds each filler's length.
pf_vector_push(filler, fill_id) ==
    LET len == IF filler \in DOMAIN pf_filler_to_htlc
               THEN pf_filler_to_htlc[filler] ELSE 0
    IN /\ pf_vector_f' = [i \in DOMAIN pf_vector_f \cup {len} |->
                             IF i = len THEN fill_id ELSE pf_vector_f[i]]
       /\ pf_filler_to_htlc' = [f \in DOMAIN pf_filler_to_htlc \cup {filler} |->
                             IF f = filler THEN len + 1 ELSE pf_filler_to_htlc[f]]

pf_create_partial_fill(filler, htlc_id, fill_amount, attached) ==
    LET res == pf_create_fill_result(htlc_id, fill_amount, attached)
        htlc == pf_htlcs[htlc_id]
        fill_id == pf_next_fill_id
        partial_fill == [fill_id |-> fill_id, htlc_id |-> htlc_id, filler |-> filler,
                         amount |-> fill_amount, secret |-> None, claimed |-> FALSE,
                         created_at |-> now]
        msgs == IF res = "Ok" /\ attached > fill_amount
                THEN <<Send(filler, attached - fill_amount)>> ELSE <<>>
    IN /\ pf_next_fill_id <= MaxPfFills
       /\ IF res = "Ok"
          THEN /\ pf_next_fill_id' = pf_next_fill_id + 1
               /\ pf_htlcs' = [pf_htlcs EXCEPT ![htlc_id] =
                                  [@ EXCEPT !.remaining_amount = @ - fill_amount,
                                            !.fills = Append(@, fill_id)]]
               /\ pf_partial_fills' =
                     [i \in DOMAIN pf_partial_fills \cup {fill_id} |->
                         IF i = fill_id THEN partial_fill ELSE pf_partial_fills[i]]
               /\ pf_vector_push(filler, fill_id)
               /\ pf_transfers' = [pf_transfers EXCEPT ![htlc_id] = @ \o msgs]
          ELSE UNCHANGED <<pf_next_fill_id, pf_htlcs, pf_partial_fills,
                           pf_filler_to_htlc, pf_vector_f, pf_transfers>>
       /\ last' = Call("pf_create_partial_fill", htlc_id, res, msgs)
       /\ UNCHANGED <<pf_secret_to_htlc, pf_next_htlc_id, now>>

\* The expects and the require!s of withdraw_partial_fill, in the order of the code.
withdraw_partial_fill_result(withdrawer, fill_id, secret) ==
    IF fill_id \notin DOMAIN pf_partial_fills THEN "Fill not found"
    ELSE LET fill == pf_partial_fills[fill_id]
         IN IF fill.htlc_id \notin DOMAIN pf_htlcs THEN "HTLC not found"
            ELSE IF fill.claimed THEN "Fill already claimed"
            ELSE IF ~(withdrawer = pf_htlcs[fill.htlc_id].receiver)
                 THEN "Not the receiver"
            ELSE IF ~(now < pf_htlcs[fill.htlc_id].timelock) THEN "HTLC expired"
            ELSE IF HexDecode(secret) = None THEN "Invalid hex secret"
            ELSE IF Sha256HexOfBytes(HexDecode(secret)[1])
                       # pf_htlcs[fill.htlc_id].hashlock THEN "Invalid secret"
            ELSE "Ok"

withdraw_partial_fill(withdrawer, fill_id, secret) ==
    LET res == withdraw_partial_fill_result(withdrawer, fill_id, secret)
        fill == pf_partial_fills[fill_id]
        htlc == pf_htlcs[fill.htlc_id]
        fills == [pf_partial_fills EXCEPT ![fill_id] =
                     [@ EXCEPT !.claimed = TRUE, !.secret = Some(secret)]]
        all_claimed == \A i \in 1..Len(htlc.fills) :
                          IF htlc.fills[i] \in DOMAIN fills
                          THEN fills[htlc.fills[i]].claimed ELSE FALSE
        msgs == IF res = "Ok" THEN <<Send(withdrawer, fill.amount)>> ELSE <<>>
    IN /\ IF res = "Ok"
          THEN /\ pf_partial_fills' = fills
               /\ pf_htlcs' = IF all_claimed /\ htlc.remaining_amount = 0
                              THEN [pf_htlcs EXCEPT ![fill.htlc_id].withdrawn = TRUE]
                              ELSE pf_htlcs
               /\ pf_transfers' = [pf_transfers EXCEPT ![fill.htlc_id] = @ \o msgs]
          ELSE UNCHANGED <<pf_partial_fills, pf_htlcs, pf_transfers>>
       /\ last' = Call("withdraw_partial_fill", fill_id, res, msgs)
       /\ UNCHANGED <<pf_secret_to_htlc, pf_filler_to_htlc, pf_vector_f,
                      pf_next_htlc_id, pf_next_fill_id, now>>

\* The expects and the require!s of FusionHTLCPartialContract::refund_partial_fill,
\* in the order of the code.
pf_refund_fill_result(refunder, fill_id) ==
    IF fill_id \notin DOMAIN pf_partial_fills THEN "Fill not found"
    ELSE LET fill == pf_partial_fills[fill_id]
         IN IF fill.htlc_id \notin DOMAIN pf_htlcs THEN "HTLC not found"
            ELSE IF fill.claimed THEN "Fill already claimed"
            ELSE IF ~(now >= pf_htlcs[fill.htlc_id].timelock) THEN "HTLC not expired"
            ELSE IF ~(refunder = fill.filler) THEN "Not the filler"
            ELSE "Ok"

\* refund_partial_fill that leaves remaining_amount as it is.
pf_refund_partial_fill_unrestored(refunder, fill_id) ==
    LET res == pf_refund_fill_result(refunder, fill_id)
        fill == pf_partial_fills[fill_id]
        msgs == IF res = "Ok" THEN <<Send(refunder, fill.amount)>> ELSE <<>>
    IN /\ IF res = "Ok"
          THEN /\ pf_partial_fills' =
                     [i \in DOMAIN pf_partial_fills \ {fill_id} |-> pf_partial_fills[i]]
               /\ pf_htlcs' = [pf_htlcs EXCEPT ![fill.htlc_id].fills =
                                  SelectSeq(@, LAMBDA fid : fid # fill_id)]
               /\ pf_transfers' = [pf_transfers EXCEPT ![fill.htlc_id] = @ \o msgs]
          ELSE UNCHANGED <<pf_partial_fills, pf_htlcs, pf_transfers>>
       /\ last' = Call("pf_refund_partial_fill", fill_id, res, msgs)
       /\ UNCHANGED <<pf_secret_to_htlc, pf_filler_to_htlc, pf_vector_f,
                      pf_next_htlc_id, pf_next_fill_id, now>>

pf_refund_partial_fill(refunder, fill_id) ==
    LET res == pf_refund_fill_result(refunder, fill_id)
        fill == pf_partial_fills[fill_id]
        msgs == IF res = "Ok" THEN <<Send(refunder, fill.amount)>> ELSE <<>>
    IN /\ IF res = "Ok"
          THEN /\ pf_partial_fills' =
                     [i \in DOMAIN pf_partial_fills \ {fill_id} |-> pf_partial_fills[i]]
               /\ pf_htlcs' = [pf_htlcs EXCEPT ![fill.htlc_id] =
                                  [@ EXCEPT !.remaining_amount = @ + fill.amount,
                                            !.fills = SelectSeq(@, LAMBDA fid :
                                                                   fid # fill_id)]]
               /\ pf_transfers' = [pf_transfers EXCEPT ![fill.htlc_id] = @ \o msgs]
          ELSE UNCHANGED <<pf_partial_fills, pf_htlcs, pf_transfers>>
       /\ last' = Call("pf_refund_partial_fill", fill_id, res, msgs)
       /\ UNCHANGED <<pf_secret_to_htlc, pf_filler_to_htlc, pf_vector_f,
                      pf_next_htlc_id, pf_next_fill_id, now>>

\* get_partial_fill: Some(fill) or None.
get_partial_fill(fill_id) ==
    IF fill_id \in DOMAIN pf_partial_fills THEN Some(pf_partial_fills[fill_id]) ELSE None

\* get_htlc_fills: the stored fills among the ids listed in htlc.fills.
get_htlc_fills(htlc_id) ==
    IF htlc_id \in DOMAIN pf_htlcs
    THEN LET ids == SelectSeq(pf_htlcs[htlc_id].fills,
                              LAMBDA fid : fid \in DOMAIN pf_partial_fills)
         IN [i \in 1..Len(ids) |-> pf_partial_fills[ids[i]]]
    ELSE <<>>

\* FusionHTLCPartialContract::new()
PfNew ==
    /\ pf_htlcs = <<>>
    /\ pf_partial_fills = <<>>
    /\ pf_secret_to_htlc = <<>>
    /\ pf_filler_to_htlc = <<>>
    /\ pf_vector_f = <<>>
    /\ pf_next_htlc_id = 1
    /\ pf_next_fill_id = 1
    /\ pf_transfers = <<>>

(***************************************************************************)
(* execute_withdraw_fees of Cosmos atomic_swap and cross_chain_bridge: the  *)
(* owner is sent the contract's whole bank balance.                        *)
(***************************************************************************)
\* Bound on the number of fee withdrawals in one behaviour.
MaxFeeWithdrawals == 1

FeeCallers == {"owner", "mallory", "alice"}
\* The recipient named by WithdrawFees: an address, or a text that is none.
FeeRecipients == {"owner", ""}

\* The checks of execute_withdraw_fees, the same in both contracts.
withdraw_fees_result(sender, owner, recipient, balance) ==
    IF sender # owner THEN "Unauthorized"
    ELSE IF ~addr_validate(recipient) THEN "Std"
    ELSE IF balance = 0 THEN "InsufficientFunds"
    ELSE "Ok"

\* atomic_swap's execute_withdraw_fees: one BankMsg::Send of all balances.
swap_withdraw_fees(sender, recipient) ==
    LET res == withdraw_fees_result(sender, CONFIG.owner, recipient, swap_balance)
        msgs == IF res = "Ok" THEN <<Send(recipient, swap_balance)>> ELSE <<>>
    IN /\ Len(swap_fee_msgs) < MaxFeeWithdrawals
       /\ swap_fee_msgs' = swap_fee_msgs \o msgs
       /\ last' = Call("swap_withdraw_fees", 0, res, msgs)
       /\ UNCHANGED <<swapVars, bridge_fee_msgs, now>>

\* cross_chain_bridge's execute_withdraw_fees.
bridge_withdraw_fees(sender, recipient) ==
    LET res == withdraw_fees_result(sender, BRIDGE_CONFIG.owner, recipient, bridge_balance)
        msgs == IF res = "Ok" THEN <<Send(recipient, bridge_balance)>> ELSE <<>>
    IN /\ Len(bridge_fee_msgs) < MaxFeeWithdrawals
       /\ bridge_fee_msgs' = bridge_fee_msgs \o msgs
       /\ last' = Call("bridge_withdraw_fees", 0, res, msgs)
       /\ UNCHANGED <<bridgeVars, swap_fee_msgs, now>>

\* No fee withdrawal has been made.
FeeWithdrawalsNew ==
    /\ swap_fee_msgs = <<>>
    /\ bridge_fee_msgs = <<>>

(***************************************************************************)
(* Stellar MultiTokenHTLC: contracts/multi-token-htlc/src/lib.rs            *)
(***************************************************************************)
MaxMtHtlcs == 2

MtAddrs == {"alice", "bob"}
MtLedgerTimes == {0, 4, 5, 6}
MtTimelockInputs == {0, 5}
MtAmountInputs == {0, 7, 101}
MtSecrets == {"k1", "k2"}

\* The TokenConfig that add_token stores for the token.
MtTokenConfig(enabled, min_amount, max_amount) ==
    [enabled |-> enabled, min_amount |-> min_amount, max_amount |-> max_amount]

\* add_token, by the admin.
mt_add_token(min_amount, max_amount) ==
    /\ mt_TokenConfig' = Some(MtTokenConfig(TRUE, min_amount, max_amount))
    /\ last' = Call("mt_add_token", 0, "Ok", <<>>)
    /\ UNCHANGED <<mt_HTLC, mt_HTLCCounter, mt_Paused, mt_balance, mt_transfers, now>>

\* update_token, by the admin: expect("Token not found").
mt_update_token(enabled, min_amount, max_amount) ==
    LET res == IF mt_TokenConfig = None THEN "Token not found" ELSE "Ok"
    IN /\ mt_TokenConfig' = IF res = "Ok"
                            THEN Some(MtTokenConfig(enabled, min_amount, max_amount))
                            ELSE mt_TokenConfig
       /\ last' = Call("mt_update_token", 0, res, <<>>)
       /\ UNCHANGED <<mt_HTLC, mt_HTLCCounter, mt_Paused, mt_balance, mt_transfers, now>>

\* set_paused, by the admin.
mt_set_paused(paused) ==
    /\ mt_Paused' = paused
    /\ last' = Call("mt_set_paused", 0, "Ok", <<>>)
    /\ UNCHANGED <<mt_HTLC, mt_HTLCCounter, mt_TokenConfig, mt_balance, mt_transfers, now>>

\* The asserts of MultiTokenHTLC::create_htlc, in the order of the code.
mt_create_result(amount, timelock) ==
    IF mt_Paused THEN "Contract is paused"
    ELSE IF mt_TokenConfig = None THEN "Token not supported"
    ELSE IF ~mt_TokenConfig[1].enabled THEN "Token is disabled"
    ELSE IF ~(amount >= mt_TokenConfig[1].min_amount) THEN "Amount below minimum"
    ELSE IF ~(amount <= mt_TokenConfig[1].max_amount) THEN "Amount above maximum"
    ELSE IF ~(amount > 0) THEN "Amount must be positive"
    ELSE IF ~(timelock > now) THEN "Timelock must be in the future"
    ELSE "Ok"

mt_create_htlc(sender, receiver, amount, hashlock, timelock) ==
    LET res == mt_create_result(amount, timelock)
        counter == mt_HTLCCounter + 1
        htlc == [id |-> counter, sender |-> sender, receiver |-> receiver,
                 amount |-> amount, hashlock |-> hashlock, timelock |-> timelock,
                 withdrawn |-> FALSE, refunded |-> FALSE, secret |-> None]
    IN /\ mt_HTLCCounter < MaxMtHtlcs
       /\ IF res = "Ok"
          THEN /\ mt_HTLCCounter' = counter
               /\ mt_balance' = mt_balance + amount
               /\ mt_HTLC' = [i \in DOMAIN mt_HTLC \cup {counter} |->
                                 IF i = counter THEN htlc ELSE mt_HTLC[i]]
               /\ mt_transfers' = [i \in DOMAIN mt_HTLC \cup {counter} |->
                                 IF i = counter THEN <<>> ELSE mt_transfers[i]]
          ELSE UNCHANGED <<mt_HTLC, mt_HTLCCounter, mt_balance, mt_transfers>>
       /\ last' = Call("mt_create_htlc", counter, res, <<>>)
       /\ UNCHANGED <<mt_TokenConfig, mt_Paused, now>>

\* The asserts of MultiTokenHTLC::withdraw, in the order of the code; caller
\* is the address that authorised the call.
mt_withdraw_result(caller, htlc_id, secret) ==
    IF htlc_id \notin DOMAIN mt_HTLC THEN "HTLC not found"
    ELSE IF mt_HTLC[htlc_id].withdrawn THEN "Already withdrawn"
    ELSE IF mt_HTLC[htlc_id].refunded THEN "Already refunded"
    ELSE IF ~(now < mt_HTLC[htlc_id].timelock) THEN "Timelock expired"
    ELSE IF ~(Keccak256(secret) = mt_HTLC[htlc_id].hashlock) THEN "Invalid secret"
    ELSE IF caller # mt_HTLC[htlc_id].receiver THEN "require_auth failed"
    ELSE IF ~token_accepts(mt_balance, mt_HTLC[htlc_id].amount)
         THEN "token: transfer refused"
    ELSE "Ok"

mt_withdraw(caller, htlc_id, secret) ==
    LET res == mt_withdraw_result(caller, htlc_id, secret)
        htlc == mt_HTLC[htlc_id]
        msgs == IF res = "Ok" THEN <<Send(htlc.receiver, htlc.amount)>> ELSE <<>>
    IN /\ IF res = "Ok"
          THEN /\ mt_HTLC' = [mt_HTLC EXCEPT ![htlc_id] =
                                 [@ EXCEPT !.withdrawn = TRUE, !.secret = Some(secret)]]
               /\ mt_balance' = mt_balance - htlc.amount
               /\ mt_transfers' = [mt_transfers EXCEPT ![htlc_id] = @ \o msgs]
          ELSE UNCHANGED <<mt_HTLC, mt_balance, mt_transfers>>
       /\ last' = Call("mt_withdraw", htlc_id, res, msgs)
       /\ UNCHANGED <<mt_HTLCCounter, mt_TokenConfig, mt_Paused, now>>

\* The asserts of MultiTokenHTLC::refund with the check of withdrawn left out.
mt_refund_result_unguarded(caller, htlc_id) ==
    IF htlc_id \notin DOMAIN mt_HTLC THEN "HTLC not found"
    ELSE IF mt_HTLC[htlc_id].refunded THEN "Already refunded"
    ELSE IF ~(now >= mt_HTLC[htlc_id].timelock) THEN "Timelock not expired"
    ELSE IF caller # mt_HTLC[htlc_id].sender THEN "require_auth failed"
    ELSE IF ~token_accepts(mt_balance, mt_HTLC[htlc_id].amount)
         THEN "token: transfer refused"
    ELSE "Ok"

\* The asserts of MultiTokenHTLC::refund, in the order of the code.
mt_refund_result(caller, htlc_id) ==
    IF htlc_id \notin DOMAIN mt_HTLC THEN "HTLC not found"
    ELSE IF mt_HTLC[htlc_id].withdrawn THEN "Already withdrawn"
    ELSE IF mt_HTLC[htlc_id].refunded THEN "Already refunded"
    ELSE IF ~(now >= mt_HTLC[htlc_id].timelock) THEN "Timelock not expired"
    ELSE IF caller # mt_HTLC[htlc_id].sender THEN "require_auth failed"
    ELSE IF ~token_accepts(mt_balance, mt_HTLC[htlc_id].amount)
         THEN "token: transfer refused"
    ELSE "Ok"

mt_refund(caller, htlc_id) ==
    LET res == mt_refund_result(caller, htlc_id)
        htlc == mt_HTLC[htlc_id]
        msgs == IF res = "Ok" THEN <<Send(htlc.sender, htlc.amount)>> ELSE <<>>
    IN /\ IF res = "Ok"
          THEN /\ mt_HTLC' = [mt_HTLC EXCEPT ![htlc_id] = [@ EXCEPT !.refunded = TRUE]]
               /\ mt_balance' = mt_balance - htlc.amount
               /\ mt_transfers' = [mt_transfers EXCEPT ![htlc_id] = @ \o msgs]
          ELSE UNCHANGED <<mt_HTLC, mt_balance, mt_transfers>>
       /\ last' = Call("mt_refund", htlc_id, res, msgs)
       /\ UNCHANGED <<mt_HTLCCounter, mt_TokenConfig, mt_Paused, now>>

\* MultiTokenHTLC::initialize
MtNew ==
    /\ mt_HTLC = <<>>
    /\ mt_HTLCCounter = 0
    /\ mt_TokenConfig = None
    /\ mt_Paused = FALSE
    /\ mt_balance = 0
    /\ mt_transfers = <<>>

(***************************************************************************)
(* Stellar FusionHTLC: src/stellar-integration/src/fusion_htlc.rs.  The     *)
(* contract moves no token: create_htlc, withdraw and refund only write    *)
(* the HTLC's state.                                                       *)
(***************************************************************************)
MaxSfHtlcs == 1

SfTimelockInputs == {0, 5, 86401}
SfAmountInputs == {0, 7}
\* The admin of the deployment and an account that initializes again.
SfAdmins == {"admin", "mallory"}

\* The asserts of FusionHTLC::create_htlc, in the order of the code.
sf_create_result(amount, timelock) ==
    IF ~(amount > 0) THEN "Amount must be positive"
    ELSE IF ~(timelock > now) THEN "Timelock must be in future"
    ELSE IF ~(timelock <= now + 86400) THEN "Timelock too far in future"
    ELSE "Ok"

sf_create_htlc(sender, receiver, amount, hashlock, timelock) ==
    LET res == sf_create_result(amount, timelock)
        counter == sf_HTLCCounter + 1
        htlc == [id |-> counter, sender |-> sender, receiver |-> receiver,
                 amount |-> amount, hashlock |-> hashlock, timelock |-> timelock,
                 withdrawn |-> FALSE, refunded |-> FALSE, secret |-> None]
    IN /\ sf_HTLCCounter < MaxSfHtlcs
       /\ IF res = "Ok"
          THEN /\ sf_HTLCCounter' = counter
               /\ sf_HTLC' = [i \in DOMAIN sf_HTLC \cup {counter} |->
                                 IF i = counter THEN htlc ELSE sf_HTLC[i]]
          ELSE UNCHANGED <<sf_HTLC, sf_HTLCCounter>>
       /\ last' = Call("sf_create_htlc", counter, res, <<>>)
       /\ UNCHANGED <<stellar_Admin, now>>

\* The asserts of FusionHTLC::withdraw, in the order of the code.
sf_withdraw_result(caller, htlc_id, secret) ==
    IF htlc_id \notin DOMAIN sf_HTLC THEN "HTLC not found"
    ELSE IF sf_HTLC[htlc_id].withdrawn THEN "Already withdrawn"
    ELSE IF sf_HTLC[htlc_id].refunded THEN "Already refunded"
    ELSE IF ~(now < sf_HTLC[htlc_id].timelock) THEN "Timelock expired"
    ELSE IF ~(Keccak256(secret) = sf_HTLC[htlc_id].hashlock) THEN "Invalid secret"
    ELSE IF caller # sf_HTLC[htlc_id].receiver THEN "require_auth failed"
    ELSE "Ok"

sf_withdraw(caller, htlc_id, secret) ==
    LET res == sf_withdraw_result(caller, htlc_id, secret)
    IN /\ sf_HTLC' = IF res = "Ok"
                     THEN [sf_HTLC EXCEPT ![htlc_id] =
                              [@ EXCEPT !.withdrawn = TRUE, !.secret = Some(secret)]]
                     ELSE sf_HTLC
       /\ last' = Call("sf_withdraw", htlc_id, res, <<>>)
       /\ UNCHANGED <<sf_HTLCCounter, stellar_Admin, now>>

\* The asserts of FusionHTLC::refund, in the order of the code.
sf_refund_result(caller, htlc_id) ==
    IF htlc_id \notin DOMAIN sf_HTLC THEN "HTLC not found"
    ELSE IF sf_HTLC[htlc_id].withdrawn THEN "Already withdrawn"
    ELSE IF sf_HTLC[htlc_id].refunded THEN "Already refunded"
    ELSE IF ~(now >= sf_HTLC[htlc_id].timelock) THEN "Timelock not expired"
    ELSE IF caller # sf_HTLC[htlc_id].sender THEN "require_auth failed"
    ELSE "Ok"

sf_refund(caller, htlc_id) ==
    LET res == sf_refund_result(caller, htlc_id)
    IN /\ sf_HTLC' = IF res = "Ok"
                     THEN [sf_HTLC EXCEPT ![htlc_id] = [@ EXCEPT !.refunded = TRUE]]
                     ELSE sf_HTLC
       /\ last' = Call("sf_refund", htlc_id, res, <<>>)
       /\ UNCHANGED <<sf_HTLCCounter, stellar_Admin, now>>

\* FusionHTLC::initialize, authorised by the admin it names.  Nothing tells a
\* first call from a later one: the counter goes back to 0 and the stored
\* HTLCs stay.
sf_initialize(admin) ==
    /\ stellar_Admin' = admin
    /\ sf_HTLCCounter' = 0
    /\ last' = Call("sf_initialize", 0, "Ok", <<>>)
    /\ UNCHANGED <<sf_HTLC, now>>

\* The contract's storage after the initialize of the deployment.
SfNew ==
    /\ sf_HTLC = <<>>
    /\ sf_HTLCCounter = 0

(***************************************************************************)
(* The views of the NEAR contracts                                         *)
(***************************************************************************)
\* FusionHTLCContract::can_withdraw
near_can_withdraw(htlc_id) ==
    IF htlc_id \in DOMAIN htlcs
    THEN ~htlcs[htlc_id].withdrawn /\ ~htlcs[htlc_id].refunded
            /\ now < htlcs[htlc_id].timelock
    ELSE FALSE

\* FusionHTLCContract::can_refund
near_can_refund(htlc_id) ==
    IF htlc_id \in DOMAIN htlcs
    THEN ~htlcs[htlc_id].withdrawn /\ ~htlcs[htlc_id].refunded
            /\ now >= htlcs[htlc_id].timelock
    ELSE FALSE

\* FusionHTLC::can_withdraw (fusion_htlc_simple.rs)
simple_can_withdraw(htlc_id) ==
    IF htlc_id \in DOMAIN simple_htlcs
    THEN ~simple_htlcs[htlc_id].withdrawn /\ ~simple_htlcs[htlc_id].refunded
            /\ now < simple_htlcs[htlc_id].timelock
    ELSE FALSE

\* FusionHTLC::can_refund (fusion_htlc_simple.rs)
simple_can_refund(htlc_id) ==
    IF htlc_id \in DOMAIN simple_htlcs
    THEN ~simple_htlcs[htlc_id].withdrawn /\ ~simple_htlcs[htlc_id].refunded
            /\ now >= simple_htlcs[htlc_id].timelock
    ELSE FALSE

(***************************************************************************)
(* Stellar PartialFillHTLC: contracts/partial-fill-htlc/src/lib.rs          *)
(***************************************************************************)
MaxPhHtlcs == 1
\* Bound on the collateral one resolver deposits in one behaviour.
MaxPhCollateral == 10

PhTokens == {"tokA", "tokB"}
PhResolvers == {"carol"}
PhAddrs == {"alice", "bob", "carol"}
PhLedgerTimes == {0, 4, 5}
PhTimelockInputs == {0, 5}
PhTotalInputs == {0, 10}
PhMinFillInputs == {0, 5, 11}
PhFillAmounts == {4, 5, 6, 10}
PhSecrets == {"k1", "k2"}
PhCollateralInputs == {-1, 5, 10}

\* The sum of the amounts of a Vec of fills or of transfers.
RECURSIVE PhSum(_)
PhSum(v) == IF v = <<>> THEN 0 ELSE Head(v).amount + PhSum(Tail(v))

\* The asserts of create_partial_htlc, in the order of the code.
ph_create_result(total_amount, min_fill_amount, timelock) ==
    IF ~(total_amount > 0) THEN "Amount must be positive"
    ELSE IF ~(min_fill_amount > 0 /\ min_fill_amount <= total_amount)
         THEN "Invalid min fill"
    ELSE IF ~(timelock > now) THEN "Timelock must be in the future"
    ELSE "Ok"

\* create_partial_htlc: the id is the counter read with unwrap_or(0) plus one,
\* and set(&DataKey::HTLC(id)) replaces an HTLC already stored under that id;
\* ph_paid then starts again for the HTLC newly stored.
create_partial_htlc(sender, receiver, token, total_amount, min_fill_amount, hashlock, timelock, allow_partial_withdraw) ==
    LET res == ph_create_result(total_amount, min_fill_amount, timelock)
        counter == ph_HTLCCounter + 1
        htlc == [id |-> counter, sender |-> sender, receiver |-> receiver,
                 token |-> token, total_amount |-> total_amount, filled_amount |-> 0,
                 min_fill_amount |-> min_fill_amount, hashlock |-> hashlock,
                 timelock |-> timelock,
                 allow_partial_withdraw |-> allow_partial_withdraw,
                 completed |-> FALSE, refunded |-> FALSE, fills |-> <<>>]
    IN /\ ph_HTLCCounter < MaxPhHtlcs
       /\ IF res = "Ok"
          THEN /\ ph_HTLCCounter' = counter
               /\ ph_balance' = [ph_balance EXCEPT ![token] = @ + total_amount]
               /\ ph_HTLC' = [i \in DOMAIN ph_HTLC \cup {counter} |->
                                 IF i = counter THEN htlc ELSE ph_HTLC[i]]
               /\ ph_paid' = [i \in DOMAIN ph_HTLC \cup {counter} |->
                                 IF i = counter THEN <<>> ELSE ph_paid[i]]
          ELSE UNCHANGED <<ph_HTLC, ph_HTLCCounter, ph_balance, ph_paid>>
       /\ last' = Call("create_partial_htlc", counter, res, <<>>)
       /\ UNCHANGED <<ph_Admin, ph_MinDeposit, ph_DepositMultiplier,
                      ph_ResolverDeposits, ph_collateral_in, ph_collateral_out, now>>

\* get(&deposit_key).unwrap_or(0)
get_deposit(resolver) ==
    IF resolver \in DOMAIN ph_ResolverDeposits THEN ph_ResolverDeposits[resolver] ELSE 0

\* The asserts of fill_htlc, in the order of the code.
fill_htlc_result(htlc_id, filler, amount, secret) ==
    IF htlc_id \notin DOMAIN ph_HTLC THEN "HTLC not found"
    ELSE LET htlc == ph_HTLC[htlc_id]
             required_deposit == (amount * htlc.total_amount) \div htlc.total_amount
         IN IF ~(~htlc.completed /\ ~htlc.refunded) THEN "HTLC already closed"
            ELSE IF ~(now < htlc.timelock) THEN "Timelock expired"
            ELSE IF ~(amount >= htlc.min_fill_amount) THEN "Amount below minimum fill"
            ELSE IF ~(htlc.filled_amount + amount <= htlc.total_amount)
                 THEN "Exceeds total amount"
            ELSE IF ~(Keccak256(secret) = htlc.hashlock) THEN "Invalid secret"
            ELSE IF ~(get_deposit(filler) >= required_deposit) THEN "Insufficient deposit"
            ELSE IF ~token_accepts(ph_balance[htlc.token], amount)
                 THEN "token: transfer refused"
            ELSE "Ok"

fill_htlc(htlc_id, filler, amount, secret) ==
    LET res == fill_htlc_result(htlc_id, filler, amount, secret)
        htlc == ph_HTLC[htlc_id]
        fill == [filler |-> filler, amount |-> amount, timestamp |-> now,
                 secret |-> Some(secret)]
        filled == htlc.filled_amount + amount
        msgs == IF res = "Ok" THEN <<Send(filler, amount)>> ELSE <<>>
    IN /\ IF res = "Ok"
          THEN /\ ph_HTLC' = [ph_HTLC EXCEPT ![htlc_id] =
                                 [@ EXCEPT !.fills = Append(@, fill),
                                           !.filled_amount = filled,
                                           !.completed =
                                               IF filled = htlc.total_amount
                                               THEN TRUE ELSE @]]
               /\ ph_balance' = [ph_balance EXCEPT ![htlc.token] = @ - amount]
               /\ ph_paid' = [ph_paid EXCEPT ![htlc_id] = @ \o msgs]
          ELSE UNCHANGED <<ph_HTLC, ph_balance, ph_paid>>
       /\ last' = Call("fill_htlc", htlc_id, res, msgs)
       /\ UNCHANGED <<ph_HTLCCounter, ph_Admin, ph_MinDeposit, ph_DepositMultiplier,
                      ph_ResolverDeposits, ph_collateral_in,
                      ph_collateral_out, now>>

\* The checks of withdraw_filled, in the order of the code; it writes nothing.
withdraw_filled_result(caller, htlc_id, secret) ==
    IF htlc_id \notin DOMAIN ph_HTLC THEN "HTLC not found"
    ELSE IF caller # ph_HTLC[htlc_id].receiver THEN "require_auth failed"
    ELSE IF ~(Keccak256(secret) = ph_HTLC[htlc_id].hashlock) THEN "Invalid secret"
    ELSE IF ~(ph_HTLC[htlc_id].allow_partial_withdraw \/ ph_HTLC[htlc_id].completed)
         THEN "Partial withdraw not allowed"
    ELSE "Ok"

withdraw_filled(caller, htlc_id, secret) ==
    /\ last' = Call("withdraw_filled", htlc_id,
                    withdraw_filled_result(caller, htlc_id, secret), <<>>)
    /\ UNCHANGED <<ph_HTLC, ph_HTLCCounter, ph_Admin, ph_MinDeposit, ph_DepositMultiplier,
                      ph_ResolverDeposits, ph_balance, ph_paid,
                   ph_collateral_in, ph_collateral_out, now>>

\* The asserts of refund_unfilled, in the order of the code.
refund_unfilled_result(caller, htlc_id) ==
    IF htlc_id \notin DOMAIN ph_HTLC THEN "HTLC not found"
    ELSE LET htlc == ph_HTLC[htlc_id]
             refund_amount == htlc.total_amount - htlc.filled_amount
         IN IF htlc.refunded THEN "Already refunded"
            ELSE IF ~(now >= htlc.timelock) THEN "Timelock not expired"
            ELSE IF caller # htlc.sender THEN "require_auth failed"
            ELSE IF refund_amount > 0
                    /\ ~token_accepts(ph_balance[htlc.token], refund_amount)
                 THEN "token: transfer refused"
            ELSE "Ok"

refund_unfilled(caller, htlc_id) ==
    LET res == refund_unfilled_result(caller, htlc_id)
        htlc == ph_HTLC[htlc_id]
        refund_amount == htlc.total_amount - htlc.filled_amount
        msgs == IF res = "Ok" /\ refund_amount > 0
                THEN <<Send(htlc.sender, refund_amount)>> ELSE <<>>
    IN /\ IF res = "Ok"
          THEN /\ ph_HTLC' = [ph_HTLC EXCEPT ![htlc_id] = [@ EXCEPT !.refunded = TRUE]]
               /\ ph_balance' = IF refund_amount > 0
                                THEN [ph_balance EXCEPT ![htlc.token] = @ - refund_amount]
                                ELSE ph_balance
               /\ ph_paid' = [ph_paid EXCEPT ![htlc_id] = @ \o msgs]
          ELSE UNCHANGED <<ph_HTLC, ph_balance, ph_paid>>
       /\ last' = Call("refund_unfilled", htlc_id, res, msgs)
       /\ UNCHANGED <<ph_HTLCCounter, ph_Admin, ph_MinDeposit, ph_DepositMultiplier,
                      ph_ResolverDeposits, ph_collateral_in,
                      ph_collateral_out, now>>

\* deposit_collateral: the token refuses a negative amount.
deposit_collateral_result(resolver, token, amount) ==
    IF ~(amount >= 0) THEN "token: transfer refused" ELSE "Ok"

deposit_collateral(resolver, token, amount) ==
    LET res == deposit_collateral_result(resolver, token, amount)
    IN /\ ph_collateral_in[resolver][token] + amount <= MaxPhCollateral
       /\ IF res = "Ok"
          THEN /\ ph_ResolverDeposits' =
                      [r \in DOMAIN ph_ResolverDeposits \cup {resolver} |->
                          IF r = resolver THEN get_deposit(resolver) + amount
                          ELSE ph_ResolverDeposits[r]]
               /\ ph_balance' = [ph_balance EXCEPT ![token] = @ + amount]
               /\ ph_collateral_in' =
                      [ph_collateral_in EXCEPT ![resolver][token] = @ + amount]
          ELSE UNCHANGED <<ph_ResolverDeposits, ph_balance, ph_collateral_in>>
       /\ last' = Call("deposit_collateral", 0, res, <<>>)
       /\ UNCHANGED <<ph_HTLC, ph_HTLCCounter, ph_Admin, ph_MinDeposit, ph_DepositMultiplier,
                      ph_paid, ph_collateral_out, now>>

\* The checks of withdraw_collateral, in the order of the code.
withdraw_collateral_result(resolver, token, amount) ==
    IF resolver \notin DOMAIN ph_ResolverDeposits THEN "No deposit found"
    ELSE IF ~(ph_ResolverDeposits[resolver] >= amount) THEN "Insufficient deposit"
    ELSE IF ~token_accepts(ph_balance[token], amount) THEN "token: transfer refused"
    ELSE "Ok"

withdraw_collateral(resolver, token, amount) ==
    LET res == withdraw_collateral_result(resolver, token, amount)
        msgs == IF res = "Ok" THEN <<Send(resolver, amount)>> ELSE <<>>
    IN /\ IF res = "Ok"
          THEN /\ ph_ResolverDeposits' =
                      [ph_ResolverDeposits EXCEPT ![resolver] = @ - amount]
               /\ ph_balance' = [ph_balance EXCEPT ![token] = @ - amount]
               /\ ph_collateral_out' =
                      [ph_collateral_out EXCEPT ![resolver][token] = @ + amount]
          ELSE UNCHANGED <<ph_ResolverDeposits, ph_balance, ph_collateral_out>>
       /\ last' = Call("withdraw_collateral", 0, res, msgs)
       /\ UNCHANGED <<ph_HTLC, ph_HTLCCounter, ph_Admin, ph_MinDeposit, ph_DepositMultiplier,
                      ph_paid, ph_collateral_in, now>>

\* PartialFillHTLC::initialize: it panics once DataKey::Admin is stored, and
\* otherwise stores the four keys, HTLCCounter as 0.  No other function reads
\* Admin, so every one of them runs before initialize as it does after, and an
\* initialize that comes late sets the counter back under the HTLCs stored.
ph_initialize(admin, min_deposit, deposit_multiplier) ==
    LET res == IF ph_Admin # None THEN "Already initialized" ELSE "Ok"
    IN /\ IF res = "Ok"
          THEN /\ ph_Admin' = Some(admin)
               /\ ph_HTLCCounter' = 0
               /\ ph_MinDeposit' = Some(min_deposit)
               /\ ph_DepositMultiplier' = Some(deposit_multiplier)
          ELSE UNCHANGED <<ph_Admin, ph_HTLCCounter, ph_MinDeposit, ph_DepositMultiplier>>
       /\ last' = Call("ph_initialize", 0, res, <<>>)
       /\ UNCHANGED <<ph_HTLC, ph_ResolverDeposits, ph_balance, ph_paid,
                      ph_collateral_in, ph_collateral_out, now>>

\* The persistent storage of the deployed contract before any call: no key is
\* stored, and HTLCCounter reads as 0.
PhNew ==
    /\ ph_HTLC = <<>>
    /\ ph_HTLCCounter = 0
    /\ ph_Admin = None
    /\ ph_MinDeposit = None
    /\ ph_DepositMultiplier = None
    /\ ph_ResolverDeposits = <<>>
    /\ ph_balance = [t \in PhTokens |-> 0]
    /\ ph_paid = <<>>
    /\ ph_collateral_in = [r \in PhResolvers |-> [t \in PhTokens |-> 0]]
    /\ ph_collateral_out = [r \in PhResolvers |-> [t \in PhTokens |-> 0]]

(***************************************************************************)
(* Deployments: one contract per behaviour                                 *)
(***************************************************************************)
Genesis ==
    /\ now = 0
    /\ last = NoCall
    /\ SwapNew
    /\ NearNew
    /\ SimpleNew
    /\ FusionNew
    /\ PlusNew
    /\ BridgeNew
    /\ ResolverNew
    /\ RelayerNew
    /\ FrNew
    /\ PfNew
    /\ FeeWithdrawalsNew
    /\ MtNew
    /\ SfNew
    /\ PhNew

\* ---- Cosmos atomic_swap ----
SwapInit == deployed = "atomic_swap" /\ Genesis

SwapFrame ==
    /\ deployed = "atomic_swap"
    /\ UNCHANGED <<deployed, nearVars, simpleVars, fusionVars, plusVars,
                   bridgeVars, resolverVars, relayerVars, frVars, pfVars, feeVars, mtVars, sfVars, phVars>>

SwapCreate ==
    /\ SwapFrame
    /\ \E r \in SwapRecipients, h \in SwapHashInputs, d \in SwapTimelockInputs,
          f \in SwapFundsInputs :
           execute_create_swap("alice", r, h, d, f)

SwapComplete ==
    /\ SwapFrame
    /\ \E c \in SwapAddrs, i \in 0..(MaxSwaps - 1), s \in SwapSecrets :
           execute_complete_swap(c, i, s)

SwapRefund ==
    /\ SwapFrame
    /\ \E c \in SwapAddrs, i \in 0..(MaxSwaps - 1) : execute_refund_swap(c, i)

SwapAdvance == SwapFrame /\ Tick(SwapBlockTimes) /\ UNCHANGED swapVars

SwapUpdateConfig ==
    /\ SwapFrame
    /\ \E c \in SwapOwners, m \in SwapConfigUpdates : swap_update_config(c, m)

SwapNext ==
    \/ SwapUpdateConfig
    \/ SwapCreate
    \/ SwapComplete
    \/ SwapRefund
    \/ SwapAdvance

SpecSwap == SwapInit /\ [][SwapNext]_vars

\* ---- NEAR FusionHTLCContract ----
NearInit == deployed = "near_fusion_htlc" /\ Genesis

NearFrame ==
    /\ deployed = "near_fusion_htlc"
    /\ UNCHANGED <<deployed, swapVars, simpleVars, fusionVars, plusVars,
                   bridgeVars, resolverVars, relayerVars, frVars, pfVars, feeVars, mtVars, sfVars, phVars>>

NearCreate ==
    /\ NearFrame
    /\ \E a \in NearDepositInputs, h \in NearHashInputs, d \in NearTimelockInputs :
           near_create_htlc("alice", a, "bob", h, d)

NearWithdraw ==
    /\ NearFrame
    /\ \E c \in NearAddrs, i \in 1..MaxNearHtlcs, s \in NearSecrets :
           near_withdraw(c, i, s)

NearRefund ==
    /\ NearFrame
    /\ \E c \in NearAddrs, i \in 1..MaxNearHtlcs : near_refund(c, i)

NearAdvance == NearFrame /\ Tick(NearBlockTimes) /\ UNCHANGED nearVars

NearCreateDeposit ==
    /\ NearFrame
    /\ \E a \in NearDepositInputs, i \in 1..MaxNearDeposits :
           near_create_safety_deposit("carol", a, i)

NearClaimDeposit ==
    /\ NearFrame
    /\ \E c \in {"carol", "bob"}, d \in 1..MaxNearDeposits :
           near_claim_safety_deposit(c, d)

NearTokenCreate ==
    /\ NearFrame
    /\ \E t \in NearTokens, a \in NearTokenAmounts, h \in NearHashInputs,
          d \in NearTimelockInputs :
           create_token_htlc("alice", t, a, "bob", h, d)

NearFtOnTransfer ==
    /\ NearFrame
    /\ \E t \in NearTokens, a \in NearTokenAmounts, m \in NearFtMessages :
           ft_on_transfer(t, "alice", a, m)

NearNext ==
    \/ NearCreate
    \/ NearWithdraw
    \/ NearRefund
    \/ NearAdvance
    \/ NearTokenCreate
    \/ NearFtOnTransfer
    \/ NearCreateDeposit
    \/ NearClaimDeposit

SpecNear == NearInit /\ [][NearNext]_vars

\* ---- NEAR FusionHTLC (simple) ----
SimpleInit == deployed = "near_fusion_htlc_simple" /\ Genesis

SimpleFrame ==
    /\ deployed = "near_fusion_htlc_simple"
    /\ UNCHANGED <<deployed, swapVars, nearVars, fusionVars, plusVars,
                   bridgeVars, resolverVars, relayerVars, frVars, pfVars, feeVars, mtVars, sfVars, phVars>>

SimpleCreate ==
    /\ SimpleFrame
    /\ \E a \in NearDepositInputs, h \in NearHashInputs, d \in NearTimelockInputs :
           simple_create_htlc("alice", a, "bob", h, d)

SimpleWithdraw ==
    /\ SimpleFrame
    /\ \E c \in NearAddrs, i \in 1..MaxSimpleHtlcs, s \in NearSecrets :
           simple_withdraw(c, i, s)

SimpleRefund ==
    /\ SimpleFrame
    /\ \E c \in NearAddrs, i \in 1..MaxSimpleHtlcs : simple_refund(c, i)

SimpleAdvance == SimpleFrame /\ Tick(NearBlockTimes) /\ UNCHANGED simpleVars

SimpleNext ==
    \/ SimpleCreate
    \/ SimpleWithdraw
    \/ SimpleRefund
    \/ SimpleAdvance

SpecSimple == SimpleInit /\ [][SimpleNext]_vars

\* ---- Stellar fusion-htlc ----
FusionInit == deployed = "fusion_htlc" /\ Genesis

FusionFrame ==
    /\ deployed = "fusion_htlc"
    /\ UNCHANGED <<deployed, swapVars, nearVars, simpleVars, plusVars,
                   bridgeVars, resolverVars, relayerVars, frVars, pfVars, feeVars, mtVars, sfVars, phVars>>

FusionCreate ==
    /\ FusionFrame
    /\ now \in FusionCreateTimes
    /\ \E a \in FusionAmountInputs, r \in FusionAllowedInputs,
          d \in FusionDurationInputs, f \in FusionFeeInputs :
           create_fusion_htlc("alice", "bob", a, "h1", "carol", r, d, f)

FusionWithdraw ==
    /\ FusionFrame
    /\ \E i \in 1..MaxFusionHtlcs, w \in FusionAddrs, s \in FusionSecrets :
           fusion_withdraw(i, w, s)

FusionCancel ==
    /\ FusionFrame
    /\ \E i \in 1..MaxFusionHtlcs, c \in FusionAddrs : fusion_cancel(i, c)

FusionAddResolver == FusionFrame /\ add_global_resolver("erin", 1, 0)

FusionSetPaused == FusionFrame /\ \E p \in BOOLEAN : set_paused(p)

FusionGet ==
    /\ FusionFrame
    /\ \E i \in 1..MaxFusionHtlcs : fusion_get_htlc(i)

FusionAdvance == FusionFrame /\ Tick(FusionLedgerTimes) /\ UNCHANGED fusionVars

FusionNext ==
    \/ FusionCreate
    \/ FusionWithdraw
    \/ FusionCancel
    \/ FusionAddResolver
    \/ FusionSetPaused
    \/ FusionGet
    \/ FusionAdvance

SpecFusion == FusionInit /\ [][FusionNext]_vars

\* ---- NEAR FusionPlusContract ----
PlusInit == deployed = "near_fusion_plus" /\ Genesis

PlusFrame ==
    /\ deployed = "near_fusion_plus"
    /\ UNCHANGED <<deployed, swapVars, nearVars, simpleVars, fusionVars,
                   bridgeVars, resolverVars, relayerVars, frVars, pfVars, feeVars, mtVars, sfVars, phVars>>

PlusCreate ==
    /\ PlusFrame
    /\ \E a \in PlusDepositInputs, h \in PlusHashInputs, d \in PlusTimelockInputs,
          p \in BOOLEAN, m \in PlusMinFillInputs, r \in BOOLEAN :
           plus_create_htlc("alice", a, "bob", h, d, p, m, r)

PlusWithdraw ==
    /\ PlusFrame
    /\ \E c \in PlusAddrs, i \in 1..MaxPlusHtlcs, s \in PlusSecrets :
           plus_withdraw(c, i, s)

PlusCreateFill ==
    /\ PlusFrame
    /\ \E i \in 1..MaxPlusHtlcs, f \in PlusFillAmounts, x \in {-1, 0, 1} :
           create_partial_fill("carol", i, f, f + x)

PlusWithdrawPartial ==
    /\ PlusFrame
    /\ \E c \in PlusAddrs, i \in 1..MaxPlusHtlcs, f \in 1..MaxFills,
          s \in PlusSecrets : withdraw_partial(c, i, f, s)

PlusRefund ==
    /\ PlusFrame
    /\ \E c \in PlusAddrs, i \in 1..MaxPlusHtlcs : plus_refund(c, i)

PlusRefundFill ==
    /\ PlusFrame
    /\ \E c \in PlusAddrs, i \in 1..MaxPlusHtlcs, f \in 1..MaxFills :
           refund_partial_fill(c, i, f)

PlusAdvance == PlusFrame /\ Tick(NearBlockTimes) /\ UNCHANGED plusVars

PlusCreateDeposit ==
    /\ PlusFrame
    /\ \E a \in PlusSafetyInputs, i \in 1..MaxPlusHtlcs :
           plus_create_safety_deposit("carol", a, i)

PlusClaimDeposit ==
    /\ PlusFrame
    /\ \E c \in {"carol", "bob"}, d \in 1..MaxPlusDeposits :
           plus_claim_safety_deposit(c, d)

PlusNext ==
    \/ PlusCreate
    \/ PlusWithdraw
    \/ PlusCreateFill
    \/ PlusWithdrawPartial
    \/ PlusRefund
    \/ PlusRefundFill
    \/ PlusAdvance
    \/ PlusCreateDeposit
    \/ PlusClaimDeposit

SpecPlus == PlusInit /\ [][PlusNext]_vars

\* ---- Cosmos cross_chain_bridge ----
BridgeInit == deployed = "cross_chain_bridge" /\ Genesis

BridgeFrame ==
    /\ deployed = "cross_chain_bridge"
    /\ UNCHANGED <<deployed, swapVars, nearVars, simpleVars, fusionVars,
                   plusVars, resolverVars, relayerVars, frVars, pfVars, feeVars, mtVars, sfVars, phVars>>

BridgeCreate ==
    /\ BridgeFrame
    /\ now \in BridgeCreateTimes
    /\ \E c \in BridgeChainInputs, h \in BridgeHashInputs,
          d \in BridgeTimelockInputs, f \in BridgeFundsInputs :
           execute_create_bridge_order("alice", c, "bob", h, d, f)

BridgeComplete ==
    /\ BridgeFrame
    /\ \E i \in 0..(MaxBridgeOrders - 1), s \in BridgeSecrets :
           execute_complete_bridge_order(i, s)

BridgeRefund ==
    /\ BridgeFrame
    /\ \E c \in BridgeAddrs, i \in 0..(MaxBridgeOrders - 1) :
           execute_refund_bridge_order(c, i)

BridgeAck ==
    /\ BridgeFrame
    /\ \E q \in BridgeSequences, ok \in BOOLEAN : ibc_packet_ack(q, ok)

BridgeTimeout ==
    /\ BridgeFrame
    /\ \E q \in BridgeSequences : ibc_packet_timeout(q)

BridgeReceive ==
    /\ BridgeFrame
    /\ \E i \in 0..(MaxBridgeOrders - 1), s \in BridgeSecrets :
           ibc_packet_receive(i, s)

BridgeAdvance == BridgeFrame /\ Tick(BridgeBlockTimes) /\ UNCHANGED bridgeVars

\* The owner has changed the configuration since instantiate.
BridgeConfigChanged ==
    CHAIN_CONFIGS # BridgeInitialChains \/ BRIDGE_CONFIG # BridgeInstantiate

BridgeUpdateChainConfig ==
    /\ BridgeFrame
    /\ now \in BridgeCreateTimes
    /\ ~BridgeConfigChanged
    /\ \E c \in BridgeOwners, m \in BridgeChainUpdates :
           execute_update_chain_config(c, m.chain_id, m)

BridgeRemoveChainConfig ==
    /\ BridgeFrame
    /\ now \in BridgeCreateTimes
    /\ ~BridgeConfigChanged
    /\ \E c \in BridgeOwners, i \in BridgeChainRemovals :
           execute_remove_chain_config(c, i)

BridgeUpdateConfig ==
    /\ BridgeFrame
    /\ now \in BridgeCreateTimes
    /\ ~BridgeConfigChanged
    /\ \E c \in BridgeOwners, m \in BridgeConfigUpdates : bridge_update_config(c, m)

BridgeNext ==
    \/ BridgeCreate
    \/ BridgeComplete
    \/ BridgeRefund
    \/ BridgeAck
    \/ BridgeTimeout
    \/ BridgeReceive
    \/ BridgeAdvance
    \/ BridgeUpdateChainConfig
    \/ BridgeRemoveChainConfig
    \/ BridgeUpdateConfig

SpecBridge == BridgeInit /\ [][BridgeNext]_vars

\* ---- Cosmos resolver ----
ResolverInit == deployed = "resolver" /\ Genesis

ResolverFrame ==
    /\ deployed = "resolver"
    /\ UNCHANGED <<deployed, swapVars, nearVars, simpleVars, fusionVars,
                   plusVars, bridgeVars, relayerVars, frVars, pfVars, feeVars, mtVars, sfVars, phVars>>

ResolverDeploySrc ==
    /\ ResolverFrame
    /\ \E i \in ResolverInitiators, a \in ResolverSrcAmounts, h \in ResolverHashInputs,
          d \in ResolverSafetyDeposits, t \in ResolverTimelockInputs,
          f \in ResolverFundsInputs :
           execute_deploy_src("rita", i, a, h, d, t, f)

ResolverDeployDst ==
    /\ ResolverFrame
    /\ \E c \in ResolverAddrs, i \in 1..MaxResolverOrders : execute_deploy_dst(c, i)

ResolverWithdraw ==
    /\ ResolverFrame
    /\ \E c \in ResolverAddrs, i \in 1..MaxResolverOrders, s \in ResolverSecrets,
          src \in BOOLEAN : execute_withdraw(c, i, s, src)

ResolverCancel ==
    /\ ResolverFrame
    /\ \E c \in ResolverAddrs, i \in 1..MaxResolverOrders : execute_cancel(c, i)

ResolverAdvance == ResolverFrame /\ Tick(ResolverBlockTimes) /\ UNCHANGED resolverVars

ResolverUpdateConfig ==
    /\ ResolverFrame
    /\ \E c \in ResolverOwners, m \in ResolverConfigUpdates :
           resolver_update_config(c, m)

ResolverNext ==
    \/ ResolverDeploySrc
    \/ ResolverDeployDst
    \/ ResolverWithdraw
    \/ ResolverCancel
    \/ ResolverAdvance
    \/ ResolverUpdateConfig

SpecResolver == ResolverInit /\ [][ResolverNext]_vars

\* ---- Stellar relayer-contract ----
RelayerInit == deployed = "relayer_contract" /\ Genesis

RelayerFrame ==
    /\ deployed = "relayer_contract"
    /\ UNCHANGED <<deployed, swapVars, nearVars, simpleVars, fusionVars,
                   plusVars, bridgeVars, resolverVars, frVars, pfVars, feeVars, mtVars, sfVars, phVars>>

RelayerCreate ==
    /\ RelayerFrame
    /\ \E a \in RelayerAmountInputs, t \in RelayerTimelockInputs,
          d \in RelayerDepositInputs : create_order("alice", a, "h1", t, d)

RelayerComplete ==
    /\ RelayerFrame
    /\ \E i \in 1..MaxRelayerOrders, s \in RelayerSecrets : complete_order(i, s)

RelayerCancel ==
    /\ RelayerFrame
    /\ \E i \in 1..MaxRelayerOrders : cancel_order(i)

RelayerAdvance == RelayerFrame /\ Tick(RelayerLedgerTimes) /\ UNCHANGED relayerVars

RelayerInitializeAgain ==
    RelayerFrame /\ \E a \in RelayerAdmins : relayer_initialize(a)

RelayerAuthorize ==
    RelayerFrame /\ \E c \in RelayerAdmins : relayer_authorize_relayer(c, "rita")

RelayerNext ==
    \/ RelayerCreate
    \/ RelayerComplete
    \/ RelayerCancel
    \/ RelayerAdvance
    \/ RelayerInitializeAgain
    \/ RelayerAuthorize

SpecRelayer == RelayerInit /\ [][RelayerNext]_vars

\* ---- Stellar fusion_relayer ----
\* src/stellar-integration/src/lib.rs declares the modules fusion_htlc and
\* fusion_relayer of one crate: the deployed contract exports the functions of
\* FusionRelayer and of FusionHTLC over one instance storage, in which
\* DataKey::Admin of the two enums is the same key.
StellarInit == deployed = "stellar_fusion" /\ Genesis

FrFrame ==
    /\ deployed = "stellar_fusion"
    /\ UNCHANGED <<deployed, swapVars, nearVars, simpleVars, fusionVars,
                   plusVars, bridgeVars, resolverVars, relayerVars, pfVars, feeVars, mtVars, sfVars, phVars>>

FrCreate ==
    /\ FrFrame
    /\ \E a \in FrAmountInputs, m \in FrMinFillInputs, t \in FrTimelockInputs,
          d \in FrDepositInputs : fr_create_order("alice", a, m, "h1", t, d)

FrAuthorize == FrFrame /\ \E c \in FrAdmins : authorize_relayer(c, "rita")

FrInitializeAgain == FrFrame /\ \E a \in FrAdmins : initialize_relayer(a)

FrFill ==
    /\ FrFrame
    /\ \E i \in 1..MaxFrOrders, r \in FrAddrs, f \in FrFillAmounts,
          q \in FrLedgerSequences : fill_order(i, r, f, q)

FrComplete ==
    /\ FrFrame
    /\ \E i \in 1..MaxFrOrders, s \in FrSecrets : fr_complete_order(i, s)

FrCancel ==
    /\ FrFrame
    /\ \E i \in 1..MaxFrOrders : fr_cancel_order(i)

FrDeposit == FrFrame /\ fr_token_deposit(FrInitialize.MinSafetyDeposit)

FrAdvance == FrFrame /\ Tick(FrLedgerTimes) /\ UNCHANGED frVars

FrNext ==
    \/ FrCreate
    \/ FrAuthorize
    \/ FrInitializeAgain
    \/ FrFill
    \/ FrComplete
    \/ FrCancel
    \/ FrDeposit
    \/ FrAdvance


\* ---- NEAR FusionHTLCPartialContract ----
PfInit == deployed = "near_fusion_htlc_partial" /\ Genesis

PfFrame ==
    /\ deployed = "near_fusion_htlc_partial"
    /\ UNCHANGED <<deployed, swapVars, nearVars, simpleVars, fusionVars, plusVars,
                   bridgeVars, resolverVars, relayerVars, frVars, feeVars, mtVars, sfVars, phVars>>

PfCreate ==
    /\ PfFrame
    /\ \E a \in PfDepositInputs, h \in PfHashInputs, d \in PfTimelockInputs,
          p \in BOOLEAN, m \in PfMinFillInputs :
           create_htlc_partial("alice", a, "bob", h, d, p, m)

PfCreateFill ==
    /\ PfFrame
    /\ \E c \in PfFillers, i \in 1..MaxPfHtlcs, f \in PfFillAmounts, x \in {-1, 0, 1} :
           pf_create_partial_fill(c, i, f, f + x)

PfWithdrawFill ==
    /\ PfFrame
    /\ \E c \in PfAddrs, f \in 1..MaxPfFills, s \in PfSecrets :
           withdraw_partial_fill(c, f, s)

PfRefundFill ==
    /\ PfFrame
    /\ \E c \in PfAddrs \cup PfFillers, f \in 1..MaxPfFills :
           pf_refund_partial_fill(c, f)

PfAdvance == PfFrame /\ Tick(PfBlockTimes) /\ UNCHANGED pfVars

PfNext ==
    \/ PfCreate
    \/ PfCreateFill
    \/ PfWithdrawFill
    \/ PfRefundFill
    \/ PfAdvance

SpecPf == PfInit /\ [][PfNext]_vars

\* ---- Stellar MultiTokenHTLC ----
MtInit == deployed = "multi_token_htlc" /\ Genesis

MtFrame ==
    /\ deployed = "multi_token_htlc"
    /\ UNCHANGED <<deployed, swapVars, nearVars, simpleVars, fusionVars, plusVars,
                   bridgeVars, resolverVars, relayerVars, frVars, pfVars, feeVars, sfVars, phVars>>

MtAddToken == MtFrame /\ mt_add_token(1, 100)

MtUpdateToken == MtFrame /\ \E e \in BOOLEAN : mt_update_token(e, 1, 100)

MtSetPaused == MtFrame /\ \E p \in BOOLEAN : mt_set_paused(p)

MtCreate ==
    /\ MtFrame
    /\ \E a \in MtAmountInputs, t \in MtTimelockInputs :
           mt_create_htlc("alice", "bob", a, "h1", t)

MtWithdraw ==
    /\ MtFrame
    /\ \E c \in MtAddrs, i \in 1..MaxMtHtlcs, s \in MtSecrets : mt_withdraw(c, i, s)

MtRefund ==
    /\ MtFrame
    /\ \E c \in MtAddrs, i \in 1..MaxMtHtlcs : mt_refund(c, i)

MtAdvance == MtFrame /\ Tick(MtLedgerTimes) /\ UNCHANGED mtVars

MtNext ==
    \/ MtAddToken
    \/ MtUpdateToken
    \/ MtSetPaused
    \/ MtCreate
    \/ MtWithdraw
    \/ MtRefund
    \/ MtAdvance

SpecMt == MtInit /\ [][MtNext]_vars

\* ---- Stellar FusionHTLC (src/fusion_htlc.rs) ----
SfFrame ==
    /\ deployed = "stellar_fusion"
    /\ UNCHANGED <<deployed, swapVars, nearVars, simpleVars, fusionVars, plusVars,
                   bridgeVars, resolverVars, relayerVars, frOwnVars, pfVars, feeVars, mtVars, phVars>>

SfCreate ==
    /\ SfFrame
    /\ \E a \in SfAmountInputs, t \in SfTimelockInputs :
           sf_create_htlc("alice", "bob", a, "h1", t)

SfWithdraw ==
    /\ SfFrame
    /\ \E c \in MtAddrs, i \in 1..MaxSfHtlcs, s \in MtSecrets : sf_withdraw(c, i, s)

SfRefund ==
    /\ SfFrame
    /\ \E c \in MtAddrs, i \in 1..MaxSfHtlcs : sf_refund(c, i)

SfAdvance == SfFrame /\ Tick(MtLedgerTimes) /\ UNCHANGED <<sfVars, stellar_Admin>>

SfInitializeAgain == SfFrame /\ \E a \in SfAdmins : sf_initialize(a)

SfNext ==
    \/ SfCreate
    \/ SfWithdraw
    \/ SfRefund
    \/ SfAdvance
    \/ SfInitializeAgain

\* The functions of the crate's contract: those of FusionRelayer and those of
\* FusionHTLC.
StellarNext ==
    \/ FrNext
    \/ SfNext

SpecStellar == StellarInit /\ [][StellarNext]_vars

\* The two-flag single-timelock HTLCs of NEAR and Stellar.
TwoFlagInit ==
    /\ deployed \in {"near_fusion_htlc", "near_fusion_htlc_simple",
                     "multi_token_htlc", "stellar_fusion"}
    /\ Genesis

TwoFlagNext ==
    \/ NearNext
    \/ SimpleNext
    \/ MtNext
    \/ StellarNext

SpecTwoFlag == TwoFlagInit /\ [][TwoFlagNext]_vars

\* ---- Stellar PartialFillHTLC ----
PhInit == deployed = "partial_fill_htlc" /\ Genesis

PhFrame ==
    /\ deployed = "partial_fill_htlc"
    /\ UNCHANGED <<deployed, swapVars, nearVars, simpleVars, fusionVars, plusVars,
                   bridgeVars, resolverVars, relayerVars, frVars, pfVars, feeVars,
                   mtVars, sfVars>>

PhCreate ==
    /\ PhFrame
    /\ \E a \in PhTotalInputs, m \in PhMinFillInputs, t \in PhTimelockInputs,
          p \in BOOLEAN :
           create_partial_htlc("alice", "bob", "tokA", a, m, "h1", t, p)

PhFill ==
    /\ PhFrame
    /\ \E i \in 1..MaxPhHtlcs, f \in PhResolvers, a \in PhFillAmounts, s \in PhSecrets :
           fill_htlc(i, f, a, s)

PhWithdrawFilled ==
    /\ PhFrame
    /\ \E c \in PhAddrs, i \in 1..MaxPhHtlcs, s \in PhSecrets : withdraw_filled(c, i, s)

PhRefund ==
    /\ PhFrame
    /\ \E c \in PhAddrs, i \in 1..MaxPhHtlcs : refund_unfilled(c, i)

PhDeposit ==
    /\ PhFrame
    /\ \E r \in PhResolvers, t \in PhTokens, a \in PhCollateralInputs :
           deposit_collateral(r, t, a)

PhWithdrawCollateral ==
    /\ PhFrame
    /\ \E r \in PhResolvers, t \in PhTokens, a \in PhCollateralInputs :
           withdraw_collateral(r, t, a)

PhAdvance == PhFrame /\ Tick(PhLedgerTimes) /\ UNCHANGED phVars

PhInitialize ==
    /\ PhFrame
    /\ ph_initialize("admin", 100, 2)

PhNext ==
    \/ PhInitialize
    \/ PhCreate
    \/ PhFill
    \/ PhWithdrawFilled
    \/ PhRefund
    \/ PhDeposit
    \/ PhWithdrawCollateral
    \/ PhAdvance

SpecPh == PhInit /\ [][PhNext]_vars

(***************************************************************************)
(* Properties of the Stellar fusion-htlc                                   *)
(***************************************************************************)
FusionTerminal(h) == h.status = "Completed" \/ h.status = "Cancelled"

\* The five stage boundaries of an HTLC, and the times one below, at and one
\* above each of them.
FusionBoundaries(h) ==
    {h.finality_time, h.taker_deadline, h.public_deadline, h.cancellation_start,
     h.cancellation_public}

FusionBoundaryTimes(h) ==
    {t \in UNION {{b - 1, b, b + 1} : b \in FusionBoundaries(h)} : t >= 0}

\* C8: update_htlc_status gives a non-terminal HTLC the stage of the interval
\* that holds the time (Pending before finality_time, TakerSettlement up to
\* taker_deadline, PrivateSettlement up to public_deadline, PublicSettlement
\* up to cancellation_start, PrivateCancellation up to cancellation_public,
\* PublicCancellation from then on), at one below, at and one above every
\* boundary and at the current ledger time; it changes nothing but the
\* status; a Completed or Cancelled HTLC is returned as it is.
C8_StageFunction ==
    \A id \in DOMAIN HTLC :
        LET h == HTLC[id]
        IN \A t \in FusionBoundaryTimes(h) \cup {now} :
                LET u == update_htlc_status(t, h)
                IN IF FusionTerminal(h) THEN u = h
                   ELSE /\ u = [h EXCEPT !.status = u.status]
                        /\ (t < h.finality_time) => u.status = "Pending"
                        /\ (h.finality_time <= t /\ t < h.taker_deadline)
                              => u.status = "TakerSettlement"
                        /\ (h.taker_deadline <= t /\ t < h.public_deadline)
                              => u.status = "PrivateSettlement"
                        /\ (h.public_deadline <= t /\ t < h.cancellation_start)
                              => u.status = "PublicSettlement"
                        /\ (h.cancellation_start <= t /\ t < h.cancellation_public)
                              => u.status = "PrivateCancellation"
                        /\ (t >= h.cancellation_public)
                              => u.status = "PublicCancellation"

\* get_htlc has just stored PrivateCancellation for an HTLC at the very time
\* its cancellation starts, in a schedule whose stages are all non-empty.
C8_Witness ==
    /\ last.op = "get_htlc"
    /\ last.id \in DOMAIN HTLC
    /\ HTLC[last.id].status = "PrivateCancellation"
    /\ now = HTLC[last.id].cancellation_start
    /\ HTLC[last.id].public_deadline < HTLC[last.id].cancellation_start
    /\ HTLC[last.id].cancellation_start < HTLC[last.id].cancellation_public

\* C9: a withdraw completes an HTLC only from finality_time on and before
\* cancellation_start, whoever calls and whatever the secret; before
\* taker_deadline the withdrawer is taker_address.
C9_WithdrawWindow ==
    [][\A id \in DOMAIN HTLC :
          (HTLC[id].status # "Completed" /\ HTLC'[id].status = "Completed")
             => /\ HTLC[id].finality_time <= now
                /\ now < HTLC[id].cancellation_start
                /\ (now < HTLC[id].taker_deadline)
                      => HTLC'[id].withdrawn_by = Some(HTLC[id].taker_address)]_vars

\* A withdraw with the correct secret was refused while the HTLC was Pending.
C9_Witness ==
    /\ last.op = "fusion_withdraw"
    /\ last.res = "Not authorized to withdraw at this stage"
    /\ last.id \in DOMAIN HTLC
    /\ now < HTLC[last.id].finality_time

\* C10: for an open HTLC and an address that is neither taker_address nor in
\* allowed_resolvers nor an enabled global resolver, a withdraw with the
\* correct secret is refused as unauthorised during PrivateSettlement and
\* succeeds during PublicSettlement; a refused withdraw changes nothing.
C10_PrivateThenPublic ==
    [][/\ \A id \in DOMAIN HTLC, w \in FusionAddrs, s \in FusionSecrets :
            LET h == HTLC[id]
            IN (/\ ~FusionTerminal(h)
                /\ Keccak256(s) = h.hashlock
                /\ w # h.taker_address
                /\ ~Contains(h.allowed_resolvers, w)
                /\ ~is_global_resolver(w))
               => /\ (h.taker_deadline <= now /\ now < h.public_deadline)
                        => fusion_withdraw_result(id, w, s)
                              = "Not authorized to withdraw at this stage"
                  /\ (h.public_deadline <= now /\ now < h.cancellation_start)
                        => fusion_withdraw_result(id, w, s) = "Ok"
       /\ (last' # last /\ last'.op = "fusion_withdraw" /\ last'.res # "Ok")
             => UNCHANGED <<fusionVars, now>>]_vars

(***************************************************************************)
(* Specifications that run any one of several contracts                    *)
(***************************************************************************)
\* The three withdraw paths: Cosmos atomic_swap, NEAR FusionHTLCContract and
\* the Stellar fusion-htlc.
WithdrawPathsInit ==
    /\ deployed \in {"atomic_swap", "near_fusion_htlc", "fusion_htlc"}
    /\ Genesis

WithdrawPathsNext ==
    \/ SwapNext
    \/ NearNext
    \/ FusionNext

SpecWithdrawPaths == WithdrawPathsInit /\ [][WithdrawPathsNext]_vars

\* The four cancel/refund paths: the Stellar fusion-htlc, Cosmos atomic_swap,
\* the Cosmos resolver and NEAR FusionPlusContract.
RefundPathsInit ==
    /\ deployed \in {"fusion_htlc", "atomic_swap", "resolver", "near_fusion_plus"}
    /\ Genesis

RefundPathsNext ==
    \/ FusionNext
    \/ SwapNext
    \/ ResolverNext
    \/ PlusNext

SpecRefundPaths == RefundPathsInit /\ [][RefundPathsNext]_vars

\* The single-timelock swaps: Cosmos atomic_swap and NEAR FusionHTLC (simple).
SingleTimelockInit ==
    /\ deployed \in {"atomic_swap", "near_fusion_htlc_simple"}
    /\ Genesis

SingleTimelockNext ==
    \/ SwapNext
    \/ SimpleNext

SpecSingleTimelock == SingleTimelockInit /\ [][SingleTimelockNext]_vars

(***************************************************************************)
(* Properties across the contracts                                         *)
(***************************************************************************)
\* The number of entries of the sequence msgs that equal m.
Count(msgs, m) == Cardinality({i \in 1..Len(msgs) : msgs[i] = m})

\* C1: on an open, unexpired order and for a caller the current stage admits,
\* execute_complete_swap, FusionHTLCContract::withdraw and the fusion-htlc
\* withdraw succeed exactly when the hash of the secret equals the hashlock;
\* a failed withdraw leaves the stored state unchanged and emits no transfer.
C1_SecretDecides ==
    [][/\ \A id \in DOMAIN SWAPS, s \in SwapSecrets :
            (SWAPS[id].status = "Active" /\ now < SWAPS[id].timelock)
               => (complete_swap_result(id, s) = "Ok"
                      <=> Sha256Hex(s) = SWAPS[id].secret_hash)
       /\ \A id \in DOMAIN htlcs, s \in NearSecrets :
            (~htlcs[id].withdrawn /\ ~htlcs[id].refunded /\ now < htlcs[id].timelock)
               => (near_withdraw_result(htlcs[id].receiver, id, s) = "Ok"
                      <=> /\ HexDecode(s) # None
                          /\ Sha256HexOfBytes(HexDecode(s)[1]) = htlcs[id].hashlock)
       /\ \A id \in DOMAIN HTLC, w \in FusionAddrs, s \in FusionSecrets :
            (/\ ~FusionTerminal(HTLC[id])
             /\ can_withdraw(update_htlc_status(now, HTLC[id]), w))
               => (fusion_withdraw_result(id, w, s) = "Ok"
                      <=> Keccak256(s) = HTLC[id].hashlock)
       /\ (/\ last' # last
           /\ last'.op \in {"execute_complete_swap", "near_withdraw", "fusion_withdraw"}
           /\ last'.res # "Ok")
             => /\ UNCHANGED <<swapVars, nearVars, fusionVars>>
                /\ last'.msgs = <<>>]_vars

\* C2: a bridge order that is Completed or Refunded keeps its status in every
\* later step, whichever handler or IBC callback runs.
C2_TerminalStatusKept ==
    [][\A id \in DOMAIN BRIDGE_ORDERS :
          BRIDGE_ORDERS[id].status \in {"Completed", "Refunded"}
             => BRIDGE_ORDERS'[id].status = BRIDGE_ORDERS[id].status]_vars

\* C3: src_amount is sent to the resolver at most once per order, and an order
\* that has paid it out is completed with its secret stored.
C3_WithdrawOnce ==
    \A id \in DOMAIN ORDERS :
        LET paid == Count(resolver_msgs[id],
                          Send(ORDERS[id].resolver, ORDERS[id].src_amount))
        IN /\ paid <= 1
           /\ (paid = 1) => (ORDERS[id].completed /\ ORDERS[id].secret # None)

\* C4: the safety deposit of an order is transferred back to its initiator at
\* most once, and a call on a Completed or Cancelled order is rejected.
C4_DepositOnce ==
    \A id \in DOMAIN Order :
        /\ Len(deposit_transfers[id]) <= 1
        /\ Order[id].status \in {"Completed", "Cancelled"}
              => /\ \A s \in RelayerSecrets : complete_order_result(id, s) # "Ok"
                 /\ cancel_order_result(id) # "Ok"

\* C5: an HTLC of FusionPlusContract that is Completed or Refunded keeps its
\* status and its remaining_amount in every later step.
C5_TerminalKept ==
    [][\A id \in DOMAIN plus_htlcs :
          plus_htlcs[id].status \in {"Completed", "Refunded"}
             => /\ plus_htlcs'[id].status = plus_htlcs[id].status
                /\ plus_htlcs'[id].remaining_amount
                      = plus_htlcs[id].remaining_amount]_vars

\* C6: once an order is cancelled or refunded, a further cancel or refund
\* fails for every caller at every later time, and exactly one refund
\* transfer to the sender or initiator has been emitted for it (fusion-htlc
\* cancel, execute_refund_swap, resolver execute_cancel, FusionPlus refund).
C6_RefundOnce ==
    /\ \A id \in DOMAIN HTLC :
          HTLC[id].status = "Cancelled"
             => /\ \A c \in FusionAddrs :
                      fusion_cancel_result(id, c) = "Already cancelled"
                /\ token_transfers[id] = <<Send(HTLC[id].sender, HTLC[id].amount)>>
    /\ \A id \in DOMAIN SWAPS :
          SWAPS[id].status = "Refunded"
             => /\ \A c \in SwapAddrs :
                      refund_swap_result(c, id)
                         = (IF c = SWAPS[id].initiator THEN "SwapAlreadyRefunded"
                            ELSE "Unauthorized")
                /\ swap_msgs[id] = <<Send(SWAPS[id].initiator, SWAPS[id].amount)>>
    /\ \A id \in DOMAIN ORDERS :
          ORDERS[id].cancelled
             => /\ \A c \in ResolverAddrs :
                      resolver_cancel_result(c, id) = "OrderAlreadyCancelled"
                /\ Count(resolver_msgs[id],
                         Send(ORDERS[id].initiator, ORDERS[id].src_amount)) = 1
    /\ \A id \in DOMAIN plus_htlcs :
          plus_htlcs[id].status = "Refunded"
             => /\ \A c \in PlusAddrs :
                      plus_refund_result(c, id)
                         = (IF c = plus_htlcs[id].sender THEN "Already processed"
                            ELSE "Not the sender")
                /\ Cardinality({i \in 1..Len(plus_transfers[id]) :
                                   plus_transfers[id][i].to = plus_htlcs[id].sender}) = 1

\* A second cancel of a cancelled fusion-htlc HTLC has just been refused.
C6_Witness ==
    /\ last.op = "fusion_cancel"
    /\ last.res = "Already cancelled"
    /\ last.id \in DOMAIN HTLC
    /\ HTLC[last.id].status = "Cancelled"
    /\ Len(token_transfers[last.id]) = 1

\* C7: for an Active single-timelock swap with expiry T, from T on every
\* complete/withdraw fails, the one by the receiver with the timelock-expired
\* error even with the correct secret, and the sender's refund is accepted;
\* before T every refund fails, the sender's with the not-expired error; an
\* accepted refund sends the full amount to the sender.
C7_SingleTimelock ==
    /\ \A id \in DOMAIN SWAPS :
          LET swap == SWAPS[id]
          IN /\ (swap.status = "Active" /\ now >= swap.timelock)
                   => /\ \A s \in SwapSecrets :
                            complete_swap_result(id, s) = "TimelockExpired"
                      /\ refund_swap_result(swap.initiator, id) = "Ok"
             /\ (swap.status = "Active" /\ now < swap.timelock)
                   => /\ \A c \in SwapAddrs : refund_swap_result(c, id) # "Ok"
                      /\ refund_swap_result(swap.initiator, id) = "TimelockNotExpired"
             /\ (last.op = "execute_refund_swap" /\ last.id = id /\ last.res = "Ok")
                   => last.msgs = <<Send(swap.initiator, swap.amount)>>
    /\ \A id \in DOMAIN simple_htlcs :
          LET htlc == simple_htlcs[id]
              open == ~htlc.withdrawn /\ ~htlc.refunded
          IN /\ (open /\ now >= htlc.timelock)
                   => /\ \A c \in NearAddrs, s \in NearSecrets :
                            simple_withdraw_result(c, id, s) # "Ok"
                      /\ \A s \in NearSecrets :
                            simple_withdraw_result(htlc.receiver, id, s) = "Expired"
                      /\ simple_refund_result(htlc.sender, id) = "Ok"
             /\ (open /\ now < htlc.timelock)
                   => /\ \A c \in NearAddrs : simple_refund_result(c, id) # "Ok"
                      /\ simple_refund_result(htlc.sender, id) = "Not expired"
             /\ (last.op = "simple_refund" /\ last.id = id /\ last.res = "Ok")
                   => last.msgs = <<Send(htlc.sender, htlc.amount)>>

\* An atomic_swap completion with the correct secret has just been refused as
\* expired at the very second of the swap's timelock.
C7_Witness ==
    /\ last.op = "execute_complete_swap"
    /\ last.res = "TimelockExpired"
    /\ last.id \in DOMAIN SWAPS
    /\ SWAPS[last.id].status = "Active"
    /\ SWAPS[last.id].secret_hash = Sha256Hex("s1")
    /\ now = SWAPS[last.id].timelock

\* C11: a cancel of an open HTLC succeeds exactly from cancellation_start on,
\* before cancellation_public only for the sender, an address in
\* allowed_resolvers or an enabled global resolver, and from cancellation_public
\* on for every caller; a step that makes an HTLC Cancelled is a cancel that
\* transfers the full amount to the sender and to nobody else.
C11_CancelStages ==
    [][/\ \A id \in DOMAIN HTLC, c \in FusionAddrs :
            LET h == HTLC[id]
            IN ~FusionTerminal(h)
                  => (fusion_cancel_result(id, c) = "Ok"
                         <=> /\ now >= h.cancellation_start
                             /\ (now < h.cancellation_public)
                                   => \/ c = h.sender
                                      \/ Contains(h.allowed_resolvers, c)
                                      \/ is_global_resolver(c))
       /\ \A id \in DOMAIN HTLC :
            (HTLC[id].status # "Cancelled" /\ HTLC'[id].status = "Cancelled")
               => /\ last'.op = "fusion_cancel"
                  /\ last'.res = "Ok"
                  /\ last'.msgs = <<Send(HTLC[id].sender, HTLC[id].amount)>>
                  /\ token_transfers'[id]
                        = token_transfers[id] \o last'.msgs]_vars

\* An HTLC was cancelled during PrivateCancellation by someone other than its
\* sender, and the amount went to the sender.
C11_Witness ==
    /\ last.op = "fusion_cancel"
    /\ last.res = "Ok"
    /\ last.id \in DOMAIN HTLC
    /\ HTLC[last.id].status = "Cancelled"
    /\ HTLC[last.id].cancelled_by # Some(HTLC[last.id].sender)
    /\ now < HTLC[last.id].cancellation_public
    /\ token_transfers[last.id] = <<Send(HTLC[last.id].sender, HTLC[last.id].amount)>>

(***************************************************************************)
(* Properties of the Stellar fusion_relayer                                *)
(***************************************************************************)
\* C12: for every order of fusion_relayer, filled_amount + remaining_amount
\* equals total_amount and remaining_amount lies between 0 and total_amount,
\* after any sequence of create_order, fill_order, complete_order and
\* cancel_order.
C12_FillLedger ==
    \A id \in DOMAIN fr_Order :
        /\ fr_Order[id].filled_amount + fr_Order[id].remaining_amount
              = fr_Order[id].total_amount
        /\ 0 <= fr_Order[id].remaining_amount
        /\ fr_Order[id].remaining_amount <= fr_Order[id].total_amount

\* An order has been filled twice and then cancelled with part of it unfilled.
C12_Witness ==
    /\ last.op = "fr_cancel_order"
    /\ last.res = "Ok"
    /\ last.id \in DOMAIN fr_Order
    /\ Len(fr_Order[last.id].htlc_ids) = 2
    /\ fr_Order[last.id].filled_amount = 6
    /\ fr_Order[last.id].remaining_amount = 4

(***************************************************************************)
(* Properties of NEAR FusionPlusContract                                   *)
(***************************************************************************)
\* The sum of the amounts of the fills in fills whose status is in statuses.
RECURSIVE FillSum(_, _)
FillSum(fills, statuses) ==
    IF fills = <<>> THEN 0
    ELSE (IF Head(fills).status \in statuses THEN Head(fills).amount ELSE 0)
         + FillSum(Tail(fills), statuses)

\* The fills recorded for an HTLC.
FillsOf(id) == IF id \in DOMAIN partial_fills THEN partial_fills[id] ELSE <<>>

\* C13: for every HTLC that allows partial fills, remaining_amount plus the
\* amounts of its Pending and Completed fills equals total_amount.
C13_FillConservation ==
    \A id \in DOMAIN plus_htlcs :
        plus_htlcs[id].allow_partial_fills
           => plus_htlcs[id].remaining_amount
                 + FillSum(FillsOf(id), {"Pending", "Completed"})
              = plus_htlcs[id].total_amount

\* A fill has just been refunded while another fill of the HTLC stands.
C13_Witness ==
    /\ last.op = "refund_partial_fill"
    /\ last.res = "Ok"
    /\ last.id \in DOMAIN plus_htlcs
    /\ FillSum(FillsOf(last.id), {"Refunded"}) > 0
    /\ FillSum(FillsOf(last.id), {"Pending", "Completed"}) > 0

\* C14: for an HTLC with partial fills, when remaining_amount is 0 and every
\* fill is Completed the status is Completed, and the status is Completed only
\* when remaining_amount is 0 and no fill is Pending.
C14_CompletedWhenAllFilled ==
    \A id \in DOMAIN plus_htlcs :
        LET htlc == plus_htlcs[id]
            fills == FillsOf(id)
        IN (htlc.allow_partial_fills /\ fills # <<>>)
              => /\ (/\ htlc.remaining_amount = 0
                     /\ \A i \in 1..Len(fills) : fills[i].status = "Completed")
                       => htlc.status = "Completed"
                 /\ htlc.status = "Completed"
                       => /\ htlc.remaining_amount = 0
                          /\ \A i \in 1..Len(fills) : fills[i].status # "Pending"

\* The second of two fills that together cover the total has just been
\* withdrawn, and the HTLC is Completed.
C14_Witness ==
    /\ last.op = "withdraw_partial"
    /\ last.res = "Ok"
    /\ last.id \in DOMAIN plus_htlcs
    /\ plus_htlcs[last.id].status = "Completed"
    /\ plus_htlcs[last.id].remaining_amount = 0
    /\ Len(FillsOf(last.id)) = 2
    /\ FillSum(FillsOf(last.id), {"Completed"}) = plus_htlcs[last.id].total_amount

(***************************************************************************)
(* Fees of the withdrawals: atomic_swap and the Stellar fusion-htlc        *)
(***************************************************************************)
\* Fee rates in basis points offered at instantiate and at create_fusion_htlc,
\* and escrowed amounts: one the rate divides, two it does not.
FeeBpsInputs == {50, 10000, 20000}
FeeAmountInputs == {199, 10000, 10001}

FeesInit ==
    /\ deployed \in {"atomic_swap", "fusion_htlc"}
    /\ now = 0
    /\ last = NoCall
    /\ CONFIG \in {[SwapInstantiate EXCEPT !.protocol_fee_bps = b] : b \in FeeBpsInputs}
    /\ deployed = "fusion_htlc" => CONFIG = SwapInstantiate
    /\ SWAPS = <<>>
    /\ SWAP_COUNTER = 0
    /\ swap_msgs = <<>>
    /\ NearNew
    /\ SimpleNew
    /\ FusionNew
    /\ PlusNew
    /\ BridgeNew
    /\ ResolverNew
    /\ RelayerNew
    /\ FrNew
    /\ PfNew
    /\ FeeWithdrawalsNew
    /\ MtNew
    /\ SfNew
    /\ PhNew

FeeSwapCreate ==
    /\ SwapFrame
    /\ \E a \in FeeAmountInputs : execute_create_swap("alice", "bob", "d1", 3600, <<a>>)

FeeFusionCreate ==
    /\ FusionFrame
    /\ now \in FusionCreateTimes
    /\ \E a \in FeeAmountInputs, f \in {None} \cup {Some(b) : b \in FeeBpsInputs} :
           create_fusion_htlc("alice", "bob", a, "h1", "carol", <<>>,
                              Durations(0, 2, 2, 2, 2), f)

FeesNext ==
    \/ SwapUpdateConfig
    \/ FeeSwapCreate
    \/ SwapComplete
    \/ SwapAdvance
    \/ FeeFusionCreate
    \/ FusionWithdraw
    \/ FusionAdvance

SpecFees == FeesInit /\ [][FeesNext]_vars

\* floor(amount * fee_bps / 10000)
FeeOf(amount, fee_bps) == (amount * fee_bps) \div 10000

\* C15: a successful execute_complete_swap pays the recipient amount - fee with
\* fee = floor(amount * protocol_fee_bps / 10000), and a successful fusion-htlc
\* withdraw by someone other than the receiver pays the receiver amount - fee
\* and the withdrawer the fee = floor(amount * resolver_fee_bps / 10000); in
\* both 0 <= fee <= amount, so payout and fee add up to the amount.
C15_FeeFormula ==
    [][/\ (/\ last' # last
           /\ last'.op = "execute_complete_swap"
           /\ last'.res = "Ok")
             => LET swap == SWAPS[last'.id]
                    fee == FeeOf(swap.amount, CONFIG.protocol_fee_bps)
                IN /\ 0 <= fee
                   /\ fee <= swap.amount
                   /\ last'.msgs = <<Send(swap.recipient, swap.amount - fee)>>
       /\ (/\ last' # last
           /\ last'.op = "fusion_withdraw"
           /\ last'.res = "Ok"
           /\ HTLC'[last'.id].withdrawn_by # Some(HTLC[last'.id].receiver))
             => LET htlc == HTLC[last'.id]
                    fee == FeeOf(htlc.amount, htlc.resolver_fee_bps)
                IN /\ 0 <= fee
                   /\ fee <= htlc.amount
                   /\ last'.msgs
                         = (IF fee > 0
                            THEN <<Send(htlc.receiver, htlc.amount - fee),
                                   Send(HTLC'[last'.id].withdrawn_by[1], fee)>>
                            ELSE <<Send(htlc.receiver, htlc.amount)>>)]_vars

\* A swap of 10000 at 50 basis points has just paid 9950 to the recipient.
C15_Witness ==
    /\ last.op = "execute_complete_swap"
    /\ last.res = "Ok"
    /\ CONFIG.protocol_fee_bps = 50
    /\ last.id \in DOMAIN SWAPS
    /\ SWAPS[last.id].amount = 10000
    /\ last.msgs = <<Send(SWAPS[last.id].recipient, 9950)>>

(***************************************************************************)
(* Properties of the Cosmos cross_chain_bridge                             *)
(***************************************************************************)
BridgeAckOps == {"ibc_packet_ack_success", "ibc_packet_ack_error", "ibc_packet_timeout"}

\* C16: an acknowledgement or timeout delivered for a sequence that has a
\* pending-transfer record makes the order named by the record Completed on a
\* success acknowledgement and Failed on an error acknowledgement or a
\* timeout, and removes the record.
C16_AckFinalizes ==
    [][\A S \in DOMAIN IBC_TRANSFERS :
          (last' # last /\ last'.op \in BridgeAckOps /\ last'.id = S)
             => /\ BRIDGE_ORDERS'[IBC_TRANSFERS[S].order_id].status
                      = (IF last'.op = "ibc_packet_ack_success" THEN "Completed"
                         ELSE "Failed")
                /\ S \notin DOMAIN IBC_TRANSFERS']_vars

\* A timeout has just failed the order whose transfer was in flight, and the
\* record of its sequence is gone.
C16_Witness ==
    /\ last.op = "ibc_packet_timeout"
    /\ last.id \notin DOMAIN IBC_TRANSFERS
    /\ \E id \in DOMAIN BRIDGE_ORDERS :
          /\ BRIDGE_ORDERS[id].status = "Failed"
          /\ BRIDGE_ORDERS[id].ibc_packet_sequence = Some(last.id)

\* C17: an acknowledgement or timeout delivered for a sequence that an earlier
\* delivery already finalized returns success and leaves every order and
\* every pending-transfer record unchanged.
C17_DuplicateAckNoOp ==
    [][\A S \in ibc_finalized :
          (last' # last /\ last'.op \in BridgeAckOps /\ last'.id = S)
             => /\ last'.res = "Ok"
                /\ UNCHANGED <<BRIDGE_ORDERS, IBC_TRANSFERS>>]_vars

\* The initiator's refund of a Failed order goes through.
BridgeRefundFailed ==
    /\ BridgeFrame
    /\ \E i \in DOMAIN BRIDGE_ORDERS :
          /\ BRIDGE_ORDERS[i].status = "Failed"
          /\ refund_bridge_order_result(BRIDGE_ORDERS[i].initiator, i) = "Ok"
          /\ execute_refund_bridge_order(BRIDGE_ORDERS[i].initiator, i)

\* The messages of the bridge that can move an order or the configuration:
\* calls that every state refuses (a malformed hash, no funds, an unknown
\* chain, a wrong secret, a sender who is not the owner) leave the storage as
\* it is and are left out of the liveness specification.
BridgeLiveChains == {2, 56}
BridgeLiveTimelocks == {0, 3600}
\* Block times: the creation and the timelock of an order.
BridgeLiveTimes == {0, 3600}

BridgeLiveCreate ==
    /\ BridgeFrame
    /\ now \in BridgeCreateTimes
    /\ \E c \in BridgeLiveChains, d \in BridgeLiveTimelocks :
           execute_create_bridge_order("alice", c, "bob", "d1", d, <<10000>>)

BridgeLiveComplete ==
    /\ BridgeFrame
    /\ \E i \in DOMAIN BRIDGE_ORDERS : execute_complete_bridge_order(i, "s1")

BridgeLiveRefund ==
    /\ BridgeFrame
    /\ \E i \in DOMAIN BRIDGE_ORDERS : execute_refund_bridge_order("alice", i)

BridgeLiveAck ==
    /\ BridgeFrame
    /\ \E q \in DOMAIN IBC_TRANSFERS, ok \in BOOLEAN : ibc_packet_ack(q, ok)

BridgeLiveTimeout ==
    /\ BridgeFrame
    /\ \E q \in DOMAIN IBC_TRANSFERS : ibc_packet_timeout(q)

BridgeLiveReceive ==
    /\ BridgeFrame
    /\ \E i \in DOMAIN BRIDGE_ORDERS : ibc_packet_receive(i, "s1")

BridgeLiveUpdateChainConfig ==
    /\ BridgeFrame
    /\ now \in BridgeCreateTimes
    /\ ~BridgeConfigChanged
    /\ \E m \in BridgeChainUpdates :
           execute_update_chain_config(BRIDGE_CONFIG.owner, m.chain_id, m)

BridgeLiveRemoveChainConfig ==
    /\ BridgeFrame
    /\ now \in BridgeCreateTimes
    /\ ~BridgeConfigChanged
    /\ \E i \in BridgeChainRemovals :
           execute_remove_chain_config(BRIDGE_CONFIG.owner, i)

BridgeLiveUpdateConfig ==
    /\ BridgeFrame
    /\ now \in BridgeCreateTimes
    /\ ~BridgeConfigChanged
    /\ \E m \in BridgeConfigUpdates : bridge_update_config(BRIDGE_CONFIG.owner, m)

BridgeLiveAdvance == BridgeFrame /\ Tick(BridgeLiveTimes) /\ UNCHANGED bridgeVars

BridgeLiveNext ==
    \/ BridgeLiveCreate
    \/ BridgeLiveComplete
    \/ BridgeLiveRefund
    \/ BridgeLiveAck
    \/ BridgeLiveTimeout
    \/ BridgeLiveReceive
    \/ BridgeLiveAdvance
    \/ BridgeLiveUpdateChainConfig
    \/ BridgeLiveRemoveChainConfig
    \/ BridgeLiveUpdateConfig

\* The bridge with a clock that keeps advancing and an initiator who keeps
\* asking for the refund of a Failed order.
SpecBridgeLive ==
    /\ BridgeInit
    /\ [][BridgeLiveNext]_vars
    /\ WF_vars(BridgeLiveAdvance)
    /\ WF_vars(BridgeRefundFailed)

\* C18: every order that becomes Failed can be refunded by its initiator:
\* the checks of execute_refund_bridge_order turn a Failed order away before
\* the timelock only because of the time and pass it from the timelock on, a
\* refund that goes through makes the order Refunded and sends the full amount
\* to the initiator, and with the clock advancing and the initiator asking,
\* every Failed order eventually is Refunded.
C18_FailedRefundable ==
    /\ [][/\ \A id \in DOMAIN BRIDGE_ORDERS :
               BRIDGE_ORDERS[id].status = "Failed"
                  => refund_bridge_order_result(BRIDGE_ORDERS[id].initiator, id)
                        = (IF now >= BRIDGE_ORDERS[id].timelock THEN "Ok"
                           ELSE "TimelockNotExpired")
          /\ \A id \in DOMAIN BRIDGE_ORDERS :
               (/\ BRIDGE_ORDERS[id].status = "Failed"
                /\ last' # last
                /\ last'.op = "execute_refund_bridge_order"
                /\ last'.id = id
                /\ last'.res = "Ok")
                  => /\ BRIDGE_ORDERS'[id].status = "Refunded"
                     /\ last'.msgs = <<Send(BRIDGE_ORDERS[id].initiator,
                                            BRIDGE_ORDERS[id].amount)>>]_vars
    /\ \A id \in 0..(MaxBridgeOrders - 1) :
          (id \in DOMAIN BRIDGE_ORDERS /\ BRIDGE_ORDERS[id].status = "Failed")
             ~> (/\ id \in DOMAIN BRIDGE_ORDERS
                 /\ BRIDGE_ORDERS[id].status = "Refunded")

\* C19: an Active order with ibc_packet_sequence = S has the record stored
\* under S in IBC_TRANSFERS, and that record names this order, so no two
\* Active orders share a sequence.
C19_SequenceNamesOrder ==
    \A id \in DOMAIN BRIDGE_ORDERS :
        (BRIDGE_ORDERS[id].status = "Active"
         /\ BRIDGE_ORDERS[id].ibc_packet_sequence # None)
           => LET S == BRIDGE_ORDERS[id].ibc_packet_sequence[1]
              IN /\ S \in DOMAIN IBC_TRANSFERS
                 /\ IBC_TRANSFERS[S].order_id = id

\* C20: an order of fusion_relayer becomes Completed only in a complete_order
\* call that presented a secret whose hash equals the hashlock; a fill_order
\* that brings remaining_amount to zero does not make it Completed.
C20_CompletedNeedsSecret ==
    [][\A id \in DOMAIN fr_Order :
          (fr_Order[id].status # "Completed" /\ fr_Order'[id].status = "Completed")
             => /\ last'.op = "fr_complete_order"
                /\ last'.id = id
                /\ last'.res = "Ok"]_vars

\* C21: cancel_order of fusion_relayer on an order whose status is Completed
\* is rejected at every time, also after the timelock: a Completed order stays
\* Completed and cancel transfers none of its safety deposit.
C21_CompletedNotCancelled ==
    [][\A id \in DOMAIN fr_Order :
          fr_Order[id].status = "Completed"
             => /\ fr_Order'[id].status = "Completed"
                /\ fr_transfers'[id] = fr_transfers[id]
                /\ (last' # last /\ last'.op = "fr_cancel_order" /\ last'.id = id)
                      => last'.res # "Ok"]_vars

\* C22: for a pending order of the Cosmos resolver, cancel passes its time
\* check exactly when now >= src_timelock and the source-chain withdraw exactly
\* when now < src_timelock; at now = src_timelock it is cancel that is enabled.
C22_TimelockBoundary ==
    \A id \in DOMAIN ORDERS :
        (~ORDERS[id].completed /\ ~ORDERS[id].cancelled)
           => /\ (resolver_cancel_result(ORDERS[id].initiator, id) = "Ok")
                    <=> (now >= ORDERS[id].src_timelock)
              /\ \A s \in ResolverSecrets :
                    Sha256Hex(s) = ORDERS[id].secret_hash
                       => ((resolver_withdraw_result(ORDERS[id].resolver, id, s, TRUE) = "Ok")
                              <=> (now < ORDERS[id].src_timelock))

\* C23: every HTLC stored by create_fusion_htlc has strictly increasing stage
\* boundaries: finality_time < taker_deadline < public_deadline <
\* cancellation_start < cancellation_public.
C23_StrictBoundaries ==
    \A id \in DOMAIN HTLC :
        /\ HTLC[id].finality_time < HTLC[id].taker_deadline
        /\ HTLC[id].taker_deadline < HTLC[id].public_deadline
        /\ HTLC[id].public_deadline < HTLC[id].cancellation_start
        /\ HTLC[id].cancellation_start < HTLC[id].cancellation_public

\* C24: in FusionPlusContract, whenever at least one fill of an HTLC is
\* Completed, the HTLC's secret field is set: the revealed secret is recorded
\* on the order by the first withdrawal of a fill.
C24_SecretOnFirstWithdraw ==
    \A id \in DOMAIN plus_htlcs :
        (\E i \in 1..Len(FillsOf(id)) : FillsOf(id)[i].status = "Completed")
           => plus_htlcs[id].secret # None

\* ---- The two NEAR contracts with partial fills ----
FillRecordsInit ==
    /\ deployed \in {"near_fusion_plus", "near_fusion_htlc_partial"}
    /\ Genesis

SpecFillRecords == FillRecordsInit /\ [][PlusNext \/ PfNext]_vars

\* C25: a fill record, once created, is never deleted while its order exists:
\* in FusionPlusContract and in FusionHTLCPartialContract every recorded fill
\* is still stored and still listed among its order's fills after any call,
\* and a refund_partial_fill leaves it there with a refunded status.
C25_FillRecordKept ==
    [][/\ \A id \in DOMAIN partial_fills :
             \A i \in 1..Len(partial_fills[id]) :
                /\ id \in DOMAIN partial_fills'
                /\ i <= Len(partial_fills'[id])
                /\ partial_fills'[id][i].id = partial_fills[id][i].id
                /\ (/\ partial_fills'[id][i].status # partial_fills[id][i].status
                    /\ last'.op = "refund_partial_fill")
                      => partial_fills'[id][i].status = "Refunded"
       /\ \A f \in DOMAIN pf_partial_fills :
             /\ get_partial_fill(f)' # None
             /\ \E i \in 1..Len(get_htlc_fills(pf_partial_fills[f].htlc_id)') :
                   get_htlc_fills(pf_partial_fills[f].htlc_id)'[i].fill_id = f]_vars

\* The sender's refund of an HTLC of FusionPlusContract, when it would succeed.
PlusSenderRefund ==
    /\ PlusFrame
    /\ \E i \in DOMAIN plus_htlcs :
          /\ plus_refund_result(plus_htlcs[i].sender, i) = "Ok"
          /\ plus_refund(plus_htlcs[i].sender, i)

\* The two NEAR contracts with partial fills, where a sender whose refund would
\* succeed eventually calls it, time passes and FusionHTLCPartialContract
\* keeps being called.
SpecSenderRefund ==
    /\ FillRecordsInit
    /\ [][PlusNext \/ PfNext]_vars
    /\ WF_vars(PlusSenderRefund)
    /\ WF_vars(PlusAdvance)
    /\ WF_vars(PfNext)

\* An HTLC past its timelock that still holds unfilled funds of the sender.
PlusLocked(id) ==
    /\ id \in DOMAIN plus_htlcs
    /\ now >= plus_htlcs[id].timelock
    /\ plus_htlcs[id].remaining_amount > 0
    /\ plus_htlcs[id].status \notin {"Completed", "Refunded"}

PfLocked(id) ==
    /\ id \in DOMAIN pf_htlcs
    /\ now >= pf_htlcs[id].timelock
    /\ pf_htlcs[id].remaining_amount > 0
    /\ ~pf_htlcs[id].withdrawn

\* C26: every HTLC of FusionPlusContract and of FusionHTLCPartialContract that
\* is past its timelock with remaining_amount > 0 is eventually refunded to
\* its sender: no expired HTLC keeps the sender's unfilled funds locked forever.
C26_SenderRefundable ==
    /\ \A id \in 1..MaxPlusHtlcs :
          PlusLocked(id)
             ~> (/\ id \in DOMAIN plus_htlcs
                 /\ plus_htlcs[id].status = "Refunded"
                 /\ \E k \in 1..Len(plus_transfers[id]) :
                       /\ plus_transfers[id][k].to = plus_htlcs[id].sender
                       /\ plus_transfers[id][k].amount > 0)
    /\ \A id \in 1..MaxPfHtlcs :
          PfLocked(id)
             ~> (/\ id \in DOMAIN pf_htlcs
                 /\ \E k \in 1..Len(pf_transfers[id]) :
                       pf_transfers[id][k].to = pf_htlcs[id].sender)

\* ---- The contracts that keep a hashlock -> order index ----
HashIndexInit ==
    /\ deployed \in {"near_fusion_htlc", "resolver"}
    /\ Genesis

SpecHashIndex == HashIndexInit /\ [][NearNext \/ ResolverNext]_vars

\* C27: the hashlock -> order map is a uniqueness index: for every stored
\* order a lookup by its hashlock returns that order (get_htlc_by_hashlock of
\* NEAR FusionHTLCContract, OrderBySecretHash of the Cosmos resolver), so no
\* two stored orders share a hashlock.
C27_HashlockIndex ==
    /\ \A id \in DOMAIN htlcs :
          /\ get_htlc_by_hashlock(htlcs[id].hashlock) = Some(htlcs[id])
          /\ \A other \in DOMAIN htlcs :
                htlcs[other].hashlock = htlcs[id].hashlock => other = id
    /\ \A id \in DOMAIN ORDERS :
          /\ query_order_by_secret_hash(ORDERS[id].secret_hash) = Some(id)
          /\ \A other \in DOMAIN ORDERS :
                ORDERS[other].secret_hash = ORDERS[id].secret_hash => other = id

\* ---- The contracts that take fills ----
FillsInit ==
    /\ deployed \in {"near_fusion_plus", "near_fusion_htlc_partial", "stellar_fusion"}
    /\ Genesis

SpecFills == FillsInit /\ [][PlusNext \/ PfNext \/ StellarNext]_vars

\* A fill creation has just been called.
FillCalled(op) == last' # last /\ last'.op = op

\* C28: a fill creation (create_partial_fill of FusionPlusContract and of
\* FusionHTLCPartialContract, fill_order of fusion_relayer) that fails leaves
\* the state unchanged; one that succeeds was made on an order that was not
\* terminal and not expired, with min_fill_amount <= amount <= remaining_amount,
\* it lowers remaining_amount by exactly amount and appends one pending fill;
\* every recorded fill has amount >= min_fill_amount and no remaining_amount
\* is negative.
C28_FillCreation ==
    [][/\ FillCalled("create_partial_fill") =>
            IF last'.res # "Ok" THEN UNCHANGED plusVars
            ELSE LET id == last'.id
                     htlc == plus_htlcs[id]
                     fill == partial_fills'[id][Len(partial_fills'[id])]
                 IN /\ id \in DOMAIN plus_htlcs
                    /\ htlc.status \in {"Active", "PartiallyFilled"}
                    /\ now < htlc.timelock
                    /\ partial_fills'[id] = Append(partial_fills[id], fill)
                    /\ fill.status = "Pending"
                    /\ fill.amount >= htlc.min_fill_amount
                    /\ fill.amount <= htlc.remaining_amount
                    /\ plus_htlcs'[id].remaining_amount
                          = htlc.remaining_amount - fill.amount
       /\ FillCalled("pf_create_partial_fill") =>
            IF last'.res # "Ok" THEN UNCHANGED pfVars
            ELSE LET id == last'.id
                     htlc == pf_htlcs[id]
                     fill_id == pf_htlcs'[id].fills[Len(pf_htlcs'[id].fills)]
                     fill == pf_partial_fills'[fill_id]
                 IN /\ id \in DOMAIN pf_htlcs
                    /\ ~htlc.withdrawn /\ ~htlc.refunded
                    /\ now < htlc.timelock
                    /\ pf_htlcs'[id].fills = Append(htlc.fills, fill_id)
                    /\ fill_id \notin DOMAIN pf_partial_fills
                    /\ DOMAIN pf_partial_fills' = DOMAIN pf_partial_fills \cup {fill_id}
                    /\ ~fill.claimed
                    /\ fill.amount >= htlc.min_fill_amount
                    /\ fill.amount <= htlc.remaining_amount
                    /\ pf_htlcs'[id].remaining_amount
                          = htlc.remaining_amount - fill.amount
       /\ FillCalled("fill_order") =>
            IF last'.res # "Ok" THEN UNCHANGED frVars
            ELSE LET id == last'.id
                     order == fr_Order[id]
                     amount == order.remaining_amount - fr_Order'[id].remaining_amount
                 IN /\ id \in DOMAIN fr_Order
                    /\ order.status \in {"Active", "PartiallyFilled"}
                    /\ now < order.timelock
                    /\ Len(fr_Order'[id].htlc_ids) = Len(order.htlc_ids) + 1
                    /\ fr_Order'[id].filled_amount = order.filled_amount + amount
                    /\ amount >= order.min_fill_amount
                    /\ amount <= order.remaining_amount
       /\ \A id \in DOMAIN plus_htlcs' :
             /\ plus_htlcs'[id].remaining_amount >= 0
             /\ id \in DOMAIN partial_fills' =>
                   \A i \in 1..Len(partial_fills'[id]) :
                      partial_fills'[id][i].amount >= plus_htlcs'[id].min_fill_amount
       /\ \A id \in DOMAIN pf_htlcs' : pf_htlcs'[id].remaining_amount >= 0
       /\ \A f \in DOMAIN pf_partial_fills' :
             pf_partial_fills'[f].amount
                >= pf_htlcs'[pf_partial_fills'[f].htlc_id].min_fill_amount
       /\ \A id \in DOMAIN fr_Order' : fr_Order'[id].remaining_amount >= 0]_vars

\* A second fill of an HTLC of FusionHTLCPartialContract has just been accepted
\* and the HTLC has nothing left to fill.
C28_Witness ==
    /\ last.op = "pf_create_partial_fill"
    /\ last.res = "Ok"
    /\ last.id \in DOMAIN pf_htlcs
    /\ Len(pf_htlcs[last.id].fills) = 2
    /\ pf_htlcs[last.id].remaining_amount = 0

\* ---- The contracts whose orders keep their core terms ----
CoreTermsInit ==
    /\ deployed \in {"fusion_htlc", "atomic_swap", "cross_chain_bridge"}
    /\ Genesis

SpecCoreTerms == CoreTermsInit /\ [][FusionNext \/ SwapNext \/ BridgeNext]_vars

\* C29: no operation changes a stored order's sender, receiver, amount,
\* hashlock or timelock boundaries, and no operation removes an order record
\* (Stellar fusion-htlc, Cosmos atomic_swap, Cosmos cross_chain_bridge).
C29_CoreTermsKept ==
    [][/\ \A id \in DOMAIN HTLC :
             /\ id \in DOMAIN HTLC'
             /\ HTLC'[id].sender = HTLC[id].sender
             /\ HTLC'[id].receiver = HTLC[id].receiver
             /\ HTLC'[id].amount = HTLC[id].amount
             /\ HTLC'[id].hashlock = HTLC[id].hashlock
             /\ HTLC'[id].finality_time = HTLC[id].finality_time
             /\ HTLC'[id].taker_deadline = HTLC[id].taker_deadline
             /\ HTLC'[id].public_deadline = HTLC[id].public_deadline
             /\ HTLC'[id].cancellation_start = HTLC[id].cancellation_start
             /\ HTLC'[id].cancellation_public = HTLC[id].cancellation_public
       /\ \A id \in DOMAIN SWAPS :
             /\ id \in DOMAIN SWAPS'
             /\ SWAPS'[id].initiator = SWAPS[id].initiator
             /\ SWAPS'[id].recipient = SWAPS[id].recipient
             /\ SWAPS'[id].amount = SWAPS[id].amount
             /\ SWAPS'[id].secret_hash = SWAPS[id].secret_hash
             /\ SWAPS'[id].timelock = SWAPS[id].timelock
       /\ \A id \in DOMAIN BRIDGE_ORDERS :
             /\ id \in DOMAIN BRIDGE_ORDERS'
             /\ BRIDGE_ORDERS'[id].initiator = BRIDGE_ORDERS[id].initiator
             /\ BRIDGE_ORDERS'[id].recipient = BRIDGE_ORDERS[id].recipient
             /\ BRIDGE_ORDERS'[id].amount = BRIDGE_ORDERS[id].amount
             /\ BRIDGE_ORDERS'[id].secret_hash = BRIDGE_ORDERS[id].secret_hash
             /\ BRIDGE_ORDERS'[id].timelock = BRIDGE_ORDERS[id].timelock]_vars

\* A swap has just been refunded and its record is still stored.
C29_Witness ==
    /\ last.op = "execute_refund_swap"
    /\ last.res = "Ok"
    /\ last.id \in DOMAIN SWAPS
    /\ SWAPS[last.id].status = "Refunded"

\* C30: whenever an order's stored secret is set, the hash of that secret
\* under the contract's hash function equals the order's hashlock: SHA-256 in
\* hexadecimal for Cosmos atomic_swap and cross_chain_bridge (the IBC receive
\* path included), keccak256 for the Stellar fusion-htlc.
C30_SecretMatchesHashlock ==
    /\ \A id \in DOMAIN SWAPS :
          SWAPS[id].secret # None
             => Sha256Hex(SWAPS[id].secret[1]) = SWAPS[id].secret_hash
    /\ \A id \in DOMAIN BRIDGE_ORDERS :
          BRIDGE_ORDERS[id].secret # None
             => Sha256Hex(BRIDGE_ORDERS[id].secret[1]) = BRIDGE_ORDERS[id].secret_hash
    /\ \A id \in DOMAIN HTLC :
          HTLC[id].secret # None
             => Keccak256(HTLC[id].secret[1]) = HTLC[id].hashlock

\* An IBC packet has just completed a bridge order and stored its secret.
C30_Witness ==
    /\ last.op = "ibc_packet_receive"
    /\ last.res = "Ok"
    /\ last.id \in DOMAIN BRIDGE_ORDERS
    /\ BRIDGE_ORDERS[last.id].secret # None
    /\ BRIDGE_ORDERS[last.id].status = "Completed"

\* The sum of the amounts of the fills of the map fills whose ids are in ids.
RECURSIVE PfListedSum(_, _)
PfListedSum(ids, fills) ==
    IF ids = <<>> THEN 0
    ELSE (IF Head(ids) \in DOMAIN fills THEN fills[Head(ids)].amount ELSE 0)
         + PfListedSum(Tail(ids), fills)

\* C31: in FusionHTLCPartialContract, remaining_amount plus the amounts of the
\* fills listed in the HTLC's fills equals total_amount after every call; a
\* refund_partial_fill removes the fill and raises remaining_amount by the
\* fill's amount.
C31_PartialConservation ==
    [][/\ \A id \in DOMAIN pf_htlcs' :
             pf_htlcs'[id].remaining_amount
                + PfListedSum(pf_htlcs'[id].fills, pf_partial_fills')
             = pf_htlcs'[id].total_amount
       /\ (last' # last /\ last'.op = "pf_refund_partial_fill" /\ last'.res = "Ok")
             => LET f == last'.id
                    id == pf_partial_fills[f].htlc_id
                IN /\ f \notin DOMAIN pf_partial_fills'
                   /\ \A i \in 1..Len(pf_htlcs'[id].fills) : pf_htlcs'[id].fills[i] # f
                   /\ pf_htlcs'[id].remaining_amount
                         = pf_htlcs[id].remaining_amount + pf_partial_fills[f].amount]_vars

\* A fill has just been refunded while another fill of the HTLC is still listed.
C31_Witness ==
    /\ last.op = "pf_refund_partial_fill"
    /\ last.res = "Ok"
    /\ \E id \in DOMAIN pf_htlcs :
          /\ Len(pf_htlcs[id].fills) = 1
          /\ pf_htlcs[id].remaining_amount < pf_htlcs[id].total_amount
          /\ last.id \notin DOMAIN pf_partial_fills

\* C32: no order of the bridge both receives a success acknowledgement for
\* its IBC transfer and has its amount refunded to the initiator.
C32_NoDoubleRelease ==
    \A id \in DOMAIN BRIDGE_ORDERS :
        ~(/\ id \in ibc_acked_ok
          /\ Count(bridge_msgs[id],
                   Send(BRIDGE_ORDERS[id].initiator, BRIDGE_ORDERS[id].amount)) > 0)

\* C33: at most one IBC transfer is initiated per order of the bridge: an
\* execute_complete_bridge_order on an order that is already Active fails and
\* emits no further transfer.
C33_OneTransferPerOrder ==
    [][\A id \in DOMAIN BRIDGE_ORDERS :
          (/\ BRIDGE_ORDERS[id].status = "Active"
           /\ last' # last
           /\ last'.op = "execute_complete_bridge_order"
           /\ last'.id = id)
             => /\ last'.res # "Ok"
                /\ bridge_msgs'[id] = bridge_msgs[id]]_vars

\* ---- The Cosmos contracts that hold escrow, with their fee withdrawal ----
EscrowInit ==
    /\ deployed \in {"atomic_swap", "cross_chain_bridge"}
    /\ Genesis

SwapFeeFrame ==
    /\ deployed = "atomic_swap"
    /\ UNCHANGED <<deployed, nearVars, simpleVars, fusionVars, plusVars, bridgeVars,
                   resolverVars, relayerVars, frVars, pfVars, mtVars, sfVars, phVars>>

SwapWithdrawFees ==
    SwapFeeFrame /\ \E c \in FeeCallers, r \in FeeRecipients : swap_withdraw_fees(c, r)

BridgeFeeFrame ==
    /\ deployed = "cross_chain_bridge"
    /\ UNCHANGED <<deployed, swapVars, nearVars, simpleVars, fusionVars, plusVars,
                   resolverVars, relayerVars, frVars, pfVars, mtVars, sfVars, phVars>>

BridgeWithdrawFees ==
    BridgeFeeFrame /\ \E c \in FeeCallers, r \in FeeRecipients : bridge_withdraw_fees(c, r)

EscrowNext ==
    \/ SwapNext
    \/ SwapWithdrawFees
    \/ BridgeCreate
    \/ BridgeComplete
    \/ BridgeRefund
    \/ BridgeAdvance
    \/ BridgeUpdateChainConfig
    \/ BridgeRemoveChainConfig
    \/ BridgeUpdateConfig
    \/ BridgeWithdrawFees

SpecEscrow == EscrowInit /\ [][EscrowNext]_vars

\* The sum of the amounts of the orders ids of orders.
RECURSIVE EscrowSum(_, _)
EscrowSum(ids, orders) ==
    IF ids = {} THEN 0
    ELSE LET id == CHOOSE i \in ids : TRUE
         IN orders[id].amount + EscrowSum(ids \ {id}, orders)

\* C34: execute_withdraw_fees never pays out funds escrowed for open orders:
\* the balance of atomic_swap is at least the sum of the amounts of its Active
\* swaps after every call, and a fee withdrawal of the bridge leaves at least
\* the amounts of its Pending, Active and Failed orders that the balance held.
C34_EscrowKept ==
    [][/\ swap_balance'
             >= EscrowSum({id \in DOMAIN SWAPS' : SWAPS'[id].status = "Active"}, SWAPS')
       /\ (last' # last /\ last'.op = "bridge_withdraw_fees" /\ last'.res = "Ok")
             => LET open == EscrowSum({id \in DOMAIN BRIDGE_ORDERS :
                                          BRIDGE_ORDERS[id].status
                                             \in {"Pending", "Active", "Failed"}},
                                      BRIDGE_ORDERS)
                IN bridge_balance'
                      >= (IF bridge_balance < open THEN bridge_balance ELSE open)]_vars

\* C35: in the two-flag single-timelock HTLCs (NEAR FusionHTLCContract and
\* FusionHTLC simple, Stellar MultiTokenHTLC and FusionHTLC) no HTLC is both
\* withdrawn and refunded and at most one transfer of its amount leaves the
\* escrow; can_withdraw and can_refund are never both true, and both are false
\* once either flag is set.
C35_WithdrawnXorRefunded ==
    /\ \A id \in DOMAIN htlcs :
          /\ ~(htlcs[id].withdrawn /\ htlcs[id].refunded)
          /\ Len(htlc_transfers[id]) <= 1
          /\ \A i \in 1..Len(htlc_transfers[id]) :
                htlc_transfers[id][i].amount = htlcs[id].amount
          /\ ~(near_can_withdraw(id) /\ near_can_refund(id))
          /\ (htlcs[id].withdrawn \/ htlcs[id].refunded)
                => (~near_can_withdraw(id) /\ ~near_can_refund(id))
    /\ \A id \in DOMAIN simple_htlcs :
          /\ ~(simple_htlcs[id].withdrawn /\ simple_htlcs[id].refunded)
          /\ Len(simple_transfers[id]) <= 1
          /\ \A i \in 1..Len(simple_transfers[id]) :
                simple_transfers[id][i].amount = simple_htlcs[id].amount
          /\ ~(simple_can_withdraw(id) /\ simple_can_refund(id))
          /\ (simple_htlcs[id].withdrawn \/ simple_htlcs[id].refunded)
                => (~simple_can_withdraw(id) /\ ~simple_can_refund(id))
    /\ \A id \in DOMAIN mt_HTLC :
          /\ ~(mt_HTLC[id].withdrawn /\ mt_HTLC[id].refunded)
          /\ Len(mt_transfers[id]) <= 1
          /\ \A i \in 1..Len(mt_transfers[id]) :
                mt_transfers[id][i].amount = mt_HTLC[id].amount
    /\ \A id \in DOMAIN sf_HTLC : ~(sf_HTLC[id].withdrawn /\ sf_HTLC[id].refunded)

\* A withdrawn MultiTokenHTLC HTLC whose sender asks for the refund after the
\* timelock and is refused.
C35_Witness ==
    /\ deployed = "multi_token_htlc"
    /\ last.op = "mt_refund"
    /\ last.res = "Already withdrawn"
    /\ last.id \in DOMAIN mt_HTLC
    /\ mt_HTLC[last.id].withdrawn
    /\ now >= mt_HTLC[last.id].timelock
    /\ Len(mt_transfers[last.id]) = 1

\* C36: in the Stellar partial-fill HTLC, completed and refunded are never both
\* true for one PartialHTLC, filled_amount is the sum of the recorded fill
\* amounts and never exceeds total_amount, and the tokens paid out for one HTLC
\* (all fills and the refund_unfilled amount) never exceed total_amount.
C36_PartialHtlcClosedOnce ==
    \A id \in DOMAIN ph_HTLC :
        /\ ~(ph_HTLC[id].completed /\ ph_HTLC[id].refunded)
        /\ ph_HTLC[id].filled_amount = PhSum(ph_HTLC[id].fills)
        /\ ph_HTLC[id].filled_amount <= ph_HTLC[id].total_amount
        /\ PhSum(ph_paid[id]) <= ph_HTLC[id].total_amount

\* C39: over deposit_collateral, withdraw_collateral and fill_htlc a resolver is
\* never paid more of a token by withdraw_collateral than that resolver
\* deposited of that token, and the recorded deposit is never negative.
C39_CollateralPerToken ==
    /\ \A r \in PhResolvers, t \in PhTokens :
          ph_collateral_out[r][t] <= ph_collateral_in[r][t]
    /\ \A r \in DOMAIN ph_ResolverDeposits : ph_ResolverDeposits[r] >= 0

\* A party of the order cancels it after the source timelock, and the cancel
\* goes through.
ResolverCancelExpired ==
    /\ ResolverFrame
    /\ \E i \in DOMAIN ORDERS :
          /\ resolver_cancel_result(ORDERS[i].initiator, i) = "Ok"
          /\ execute_cancel(ORDERS[i].initiator, i)

\* The resolver withdraws on the source side with the secret, and the withdraw
\* goes through.
ResolverWithdrawSource ==
    /\ ResolverFrame
    /\ \E i \in DOMAIN ORDERS, s \in ResolverSecrets :
          /\ resolver_withdraw_result(ORDERS[i].resolver, i, s, TRUE) = "Ok"
          /\ execute_withdraw(ORDERS[i].resolver, i, s, TRUE)

\* The resolver with a clock that keeps advancing, a resolver who keeps asking
\* for the source-side withdraw and an initiator who keeps asking to cancel an
\* expired order.
SpecResolverLive ==
    /\ ResolverInit
    /\ [][ResolverNext]_vars
    /\ WF_vars(ResolverAdvance)
    /\ WF_vars(ResolverWithdrawSource)
    /\ WF_vars(ResolverCancelExpired)

\* C37: funds of the Cosmos resolver are never permanently locked: an order
\* whose src_amount and safety_deposit have not been paid out can still have
\* them paid out, so with the resolver withdrawing on the source side before
\* the timelock and the initiator cancelling after it every order deployed on
\* the source side is eventually paid out, also after the initiator's
\* destination-side withdraw completed the order.
C37_FundsNeverLocked ==
    \A id \in 1..MaxResolverOrders :
        (id \in DOMAIN ORDERS /\ ORDERS[id].src_deployed)
            ~> (id \in DOMAIN ORDERS /\ resolver_msgs[id] # <<>>)

\* A caller who is no party of the HTLC cancels it, and the cancel goes through.
FusionPublicCancel ==
    /\ FusionFrame
    /\ \E i \in DOMAIN HTLC :
          /\ fusion_cancel_result(i, "frank") = "Ok"
          /\ fusion_cancel(i, "frank")

\* Stellar fusion-htlc with a ledger time that keeps advancing and a caller
\* who keeps asking to cancel.
SpecFusionLive ==
    /\ FusionInit
    /\ [][FusionNext]_vars
    /\ WF_vars(FusionAdvance)
    /\ WF_vars(FusionPublicCancel)

\* cancel is open to every caller for the HTLC id at the current ledger time.
FusionPubliclyCancellable(id) == \A c \in FusionAddrs : fusion_cancel_result(id, c) = "Ok"

\* C38: an HTLC of Stellar fusion-htlc that has not been withdrawn is
\* cancellable by any caller from cancellation_public on and stays so until it
\* is cancelled; withdraw and cancel are never both enabled for one HTLC at one
\* time; with time passing and a willing caller every HTLC eventually reaches
\* Completed or Cancelled.
C38_EventuallySettled ==
    /\ [](\A id \in DOMAIN HTLC :
            /\ (/\ HTLC[id].status \notin {"Completed", "Cancelled"}
                /\ now >= HTLC[id].cancellation_public)
                  => FusionPubliclyCancellable(id)
            /\ \A w \in FusionAddrs, c \in FusionAddrs, s \in FusionSecrets :
                  ~(/\ fusion_withdraw_result(id, w, s) = "Ok"
                    /\ fusion_cancel_result(id, c) = "Ok"))
    /\ [][\A id \in DOMAIN HTLC :
             (FusionPubliclyCancellable(id) /\ now >= HTLC[id].cancellation_public)
                => \/ HTLC'[id].status = "Cancelled"
                   \/ \A c \in FusionAddrs : fusion_cancel_result(id, c)' = "Ok"]_vars
    /\ \A id \in 1..MaxFusionHtlcs :
          (id \in DOMAIN HTLC)
             ~> (id \in DOMAIN HTLC /\ HTLC[id].status \in {"Completed", "Cancelled"})

\* An HTLC cancelled in the public stage by a caller who is no party of it.
C38_Witness ==
    /\ last.op = "fusion_cancel"
    /\ last.res = "Ok"
    /\ last.id \in DOMAIN HTLC
    /\ HTLC[last.id].status = "Cancelled"
    /\ HTLC[last.id].cancelled_by = Some("frank")
    /\ now >= HTLC[last.id].cancellation_public

\* C40: the queries of the Cosmos resolver agree with execution at the same
\* block time: query_can_withdraw(order, user) is true exactly when an
\* execute_withdraw by user with the correct secret succeeds on one of the two
\* sides, and query_can_cancel is true exactly when execute_cancel by the
\* initiator or the resolver succeeds.
C40_QueriesAgree ==
    \A id \in DOMAIN ORDERS :
        /\ \A user \in ResolverAddrs :
              query_can_withdraw(id, user).can_withdraw
                 <=> \E s \in ResolverSecrets, src \in BOOLEAN :
                        /\ Sha256Hex(s) = ORDERS[id].secret_hash
                        /\ resolver_withdraw_result(user, id, s, src) = "Ok"
        /\ query_can_cancel(id).can_cancel
              <=> \E user \in {ORDERS[id].initiator, ORDERS[id].resolver} :
                     resolver_cancel_result(user, id) = "Ok"

====
